---- MODULE Spec2Model ----
(***************************************************************************)
(* Model of the fashion recommendation service:                            *)
(*   server_py/ml_recommendations.py  FashionRecommendationEngine, the      *)
(*                                    module-level engine instance and      *)
(*                                    get_fashion_recommendations           *)
(*   server_py/utils/recommender.py   the static outfit catalog,            *)
(*                                    recommend_products, get_recommendations*)
(*   server_py/app.py                 POST /api/recommendations             *)
(*                                                                         *)
(* Units.  Preference scores carry one decimal (0.1 * popularity_score),   *)
(* so calculate_preference_score is kept in TENTHS of a point.  Blended    *)
(* scores (x 0.6, x 0.4) are kept in HUNDREDTHS of the raw source unit.    *)
(* The deterministic fallback score (round(.., 4)) is kept in units of     *)
(* 1/10000.  Outfit scores of recommend_products are whole points.          *)
(*                                                                         *)
(* Dictionaries with optional keys are records with a field "keys" (the    *)
(* set of keys present) and one field per possible key; the field of an    *)
(* absent key holds a filler that is never read.                           *)
(***************************************************************************)
EXTENDS Integers, Sequences, FiniteSets, TLC

VARIABLES
    store,                \* the external data store (sqlite file): tables and rows
    conn,                 \* engine.conn
    user_item_matrix,     \* engine.user_item_matrix
    item_features_matrix, \* engine.item_features_matrix
    svd_model,            \* engine.svd_model
    hash_seed,            \* the interpreter's per-process string-hash key
    op,                   \* the operation that ran last
    args,                 \* its arguments
    result,               \* the value it returned (meaningful when raised = "")
    raised,               \* the exception it raised, "" when it returned
    score_log             \* recommend_products: the += / -= applied per outfit

vars == << store, conn, user_item_matrix, item_features_matrix, svd_model,
           hash_seed, op, args, result, raised, score_log >>

-----------------------------------------------------------------------------
(* Python values                                                           *)

\* dict: key in d
Has(d, k) == k \in d.keys

\* dict.get(k, default)
Get(d, k, default) == IF k \in d.keys THEN d[k] ELSE default

\* A request may carry a non-numeric age or budget (e.g. "abc").  Numbers are
\* modelled by integers; NonNumeric stands for every value int()/float() reject.
NonNumeric == 0 - 1

IsNumeric(v) == v # NonNumeric

\* The characters of the strings the model uses (TLC strings are atomic).
CharTable ==
    ("" :> <<>>)
    @@ ("f" :> <<"f">>)
    @@ ("male" :> <<"m", "a", "l", "e">>)
    @@ ("female" :> <<"f", "e", "m", "a", "l", "e">>)
    @@ ("Female" :> <<"F", "e", "m", "a", "l", "e">>)
    @@ ("unisex" :> <<"u", "n", "i", "s", "e", "x">>)
    @@ ("navy" :> <<"n", "a", "v", "y">>)
    @@ ("blue" :> <<"b", "l", "u", "e">>)
    @@ ("gray" :> <<"g", "r", "a", "y">>)
    @@ ("black" :> <<"b", "l", "a", "c", "k">>)
    @@ ("yellow" :> <<"y", "e", "l", "l", "o", "w">>)
    @@ ("Black" :> <<"B", "l", "a", "c", "k">>)
    @@ ("BLACK" :> <<"B", "L", "A", "C", "K">>)
    @@ ("Blue" :> <<"B", "l", "u", "e">>)
    @@ ("red" :> <<"r", "e", "d">>)
    @@ ("business" :> <<"b", "u", "s", "i", "n", "e", "s", "s">>)
    @@ ("streetwear" :> <<"s", "t", "r", "e", "e", "t", "w", "e", "a", "r">>)
    @@ ("sporty" :> <<"s", "p", "o", "r", "t", "y">>)
    @@ ("elegant" :> <<"e", "l", "e", "g", "a", "n", "t">>)
    @@ ("casual" :> <<"c", "a", "s", "u", "a", "l">>)
    @@ ("Elegant" :> <<"E", "l", "e", "g", "a", "n", "t">>)
    @@ ("Casual" :> <<"C", "a", "s", "u", "a", "l">>)
    @@ ("sport" :> <<"s", "p", "o", "r", "t">>)
    @@ ("boho" :> <<"b", "o", "h", "o">>)
    @@ ("formal" :> <<"f", "o", "r", "m", "a", "l">>)
    @@ ("vintage" :> <<"v", "i", "n", "t", "a", "g", "e">>)
    @@ ("modern" :> <<"m", "o", "d", "e", "r", "n">>)
    @@ ("white" :> <<"w", "h", "i", "t", "e">>)
    @@ ("green" :> <<"g", "r", "e", "e", "n">>)
    @@ ("purple" :> <<"p", "u", "r", "p", "l", "e">>)
    @@ ("brown" :> <<"b", "r", "o", "w", "n">>)
    @@ ("pink" :> <<"p", "i", "n", "k">>)
    @@ ("16-35" :> <<"1", "6", "-", "3", "5">>)
    @@ ("16-40" :> <<"1", "6", "-", "4", "0">>)
    @@ ("18-30" :> <<"1", "8", "-", "3", "0">>)
    @@ ("18-35" :> <<"1", "8", "-", "3", "5">>)
    @@ ("25-35" :> <<"2", "5", "-", "3", "5">>)
    @@ ("25-40" :> <<"2", "5", "-", "4", "0">>)
    @@ ("25-45" :> <<"2", "5", "-", "4", "5">>)

UpperCase == << "A", "B", "C", "D", "E", "F", "G", "H", "I", "J", "K", "L", "M",
                "N", "O", "P", "Q", "R", "S", "T", "U", "V", "W", "X", "Y", "Z" >>

LowerCase == << "a", "b", "c", "d", "e", "f", "g", "h", "i", "j", "k", "l", "m",
                "n", "o", "p", "q", "r", "s", "t", "u", "v", "w", "x", "y", "z" >>

ToLowerChar(c) ==
    IF \E i \in 1..Len(UpperCase) : UpperCase[i] = c
    THEN LowerCase[CHOOSE i \in 1..Len(UpperCase) : UpperCase[i] = c]
    ELSE c

\* str.lower(), as a character sequence
LowerChars(chars) == [i \in 1..Len(chars) |-> ToLowerChar(chars[i])]

\* s.lower() for every string of the model, computed once
LowerTable == [s \in DOMAIN CharTable |-> LowerChars(CharTable[s])]

Lower(s) == LowerTable[s]

\* a in b for two character sequences (Python substring test)
Contains(b, a) ==
    \E i \in 0..(Len(b) - Len(a)) : \A j \in 1..Len(a) : b[i + j] = a[j]

DigitChars == << "0", "1", "2", "3", "4", "5", "6", "7", "8", "9" >>

\* int(s) for a sequence of decimal digits
RECURSIVE ParseInt(_)
ParseInt(chars) ==
    IF chars = <<>> THEN 0
    ELSE 10 * ParseInt(SubSeq(chars, 1, Len(chars) - 1))
         + (CHOOSE d \in 0..9 : DigitChars[d + 1] = chars[Len(chars)])

\* map(int, s.split("-")) for a string with one "-": << min, max >>
SplitInts(chars) ==
    LET dash == CHOOSE i \in 1..Len(chars) : chars[i] = "-"
    IN  << ParseInt(SubSeq(chars, 1, dash - 1)),
           ParseInt(SubSeq(chars, dash + 1, Len(chars))) >>

\* the split of every "min-max" string of the model, computed once
SplitTable ==
    [s \in { t \in DOMAIN CharTable : \E i \in 1..Len(CharTable[t]) : CharTable[t][i] = "-" }
       |-> SplitInts(CharTable[s])]

SplitAges(s) == SplitTable[s]

\* sorted(seq, key, reverse=True) / list.sort: stable, highest key first
SortDesc(seq, Key(_)) ==
    LET n == Len(seq)
        rank(i) == Cardinality({ j \in 1..n :
                       \/ Key(seq[j]) > Key(seq[i])
                       \/ Key(seq[j]) = Key(seq[i]) /\ j < i }) + 1
    IN  [r \in 1..n |-> seq[CHOOSE i \in 1..n : rank(i) = r]]

\* A plausible slip: the slice left out, the whole list returned.
TakeAll(seq, n) == seq

\* seq[:n] for n >= 0
Take(seq, n) == SubSeq(seq, 1, IF n < Len(seq) THEN n ELSE Len(seq))

Min(a, b) == IF a < b THEN a ELSE b

-----------------------------------------------------------------------------
(* FashionRecommendationEngine.calculate_preference_score                  *)

Abs(x) == IF x < 0 THEN 0 - x ELSE x

\* product: a row (record) of the products table; preferences: a dict.
\* Each rule below is one "if" block of the method, in whole points.

\* lines 289-293
PrefGenderPoints(product, preferences) ==
    IF Has(preferences, "gender")
    THEN IF product.target_gender = "unisex"
            \/ product.target_gender = preferences.gender
         THEN 30 ELSE 0 - 20
    ELSE 0

\* lines 296-297
PrefColorPoints(product, preferences) ==
    IF Has(preferences, "color") /\ Lower(product.color) = Lower(preferences.color)
    THEN 25 ELSE 0

\* lines 300-301
PrefStylePoints(product, preferences) ==
    IF Has(preferences, "style") /\ Lower(product.category) = Lower(preferences.style)
    THEN 25 ELSE 0

\* A plausible slip: the over-budget penalty of recommend_products (-20) used here.
PrefBudgetPointsPenalty20(product, preferences) ==
    IF Has(preferences, "budget")
    THEN IF product.price <= preferences.budget
         THEN IF 2 * product.price <= preferences.budget THEN 15 ELSE 10
         ELSE 0 - 20
    ELSE 0

\* lines 304-311; price <= budget * 0.5 is 2 * price <= budget on whole numbers
PrefBudgetPoints(product, preferences) ==
    IF Has(preferences, "budget")
    THEN IF product.price <= preferences.budget
         THEN IF 2 * product.price <= preferences.budget THEN 15 ELSE 10
         ELSE 0 - 15
    ELSE 0

\* lines 314-319
PrefAgePoints(product, preferences) ==
    IF Has(preferences, "age")
    THEN IF product.target_age_min <= preferences.age
            /\ preferences.age <= product.target_age_max
         THEN 20
         ELSE IF Abs(preferences.age - product.target_age_min) <= 5
                 \/ Abs(preferences.age - product.target_age_max) <= 5
              THEN 10 ELSE 0
    ELSE 0

\* Returns [raised, score]; score in tenths of a point.  A row that lacks the
\* popularity_score column makes line 322 raise KeyError.
calculate_preference_score(product, preferences) ==
    IF "popularity_score" \notin DOMAIN product
    THEN [raised |-> "KeyError", score |-> 0]
    ELSE [raised |-> "",
          score  |-> 10 * ( PrefGenderPoints(product, preferences)
                          + PrefColorPoints(product, preferences)
                          + PrefStylePoints(product, preferences)
                          + PrefBudgetPoints(product, preferences)
                          + PrefAgePoints(product, preferences) )
                     + product.popularity_score]

\* The preference dicts of the engine: keys user_id, age, gender, color, style, budget.
PrefKeys == {"user_id", "age", "gender", "color", "style", "budget"}

PrefFiller == [keys |-> {}, user_id |-> 0, age |-> 0, gender |-> "", color |-> "",
               style |-> "", budget |-> 0]

\* The dicts over the given value sets, each with any subset of the keys.
PrefDicts(UserIds, Ages, Genders, Colors, Styles, Budgets) ==
    { d \in [keys : SUBSET PrefKeys,
             user_id : UserIds \cup {PrefFiller.user_id},
             age : Ages \cup {PrefFiller.age},
             gender : Genders \cup {PrefFiller.gender},
             color : Colors \cup {PrefFiller.color},
             style : Styles \cup {PrefFiller.style},
             budget : Budgets \cup {PrefFiller.budget}] :
        /\ IF "user_id" \in d.keys THEN d.user_id \in UserIds ELSE d.user_id = PrefFiller.user_id
        /\ IF "age" \in d.keys THEN d.age \in Ages ELSE d.age = PrefFiller.age
        /\ IF "gender" \in d.keys THEN d.gender \in Genders ELSE d.gender = PrefFiller.gender
        /\ IF "color" \in d.keys THEN d.color \in Colors ELSE d.color = PrefFiller.color
        /\ IF "style" \in d.keys THEN d.style \in Styles ELSE d.style = PrefFiller.style
        /\ IF "budget" \in d.keys THEN d.budget \in Budgets ELSE d.budget = PrefFiller.budget }

\* Inputs of the scoring specification.
ScoreProducts ==
    [id : {1}, name : {"p"}, brand : {"b"},
     category : {"elegant", "Casual"}, subcategory : {"dress"},
     color : {"black", "Blue"}, price : {500, 1000, 1001},
     target_gender : {"male", "unisex"},
     target_age_min : {25}, target_age_max : {40},
     popularity_score : {0, 7}, in_stock : {TRUE}]

ScorePreferences ==
    PrefDicts({}, {19, 20, 30, 45, 46}, {"male", "female"}, {"BLACK", "blue"},
              {"elegant", "casual"}, {1000, 2000})

-----------------------------------------------------------------------------
(* FashionRecommendationEngine.create_outfit_from_products and             *)
(* create_complete_outfits                                                 *)

\* Python None, where a dict is expected
None == [none |-> TRUE]

\* A variant that tests the subcategory before the category: shoes of a top
\* or bottom category fill the shoes slot.
ItemTypeShoesFirst(product) ==
    IF product.subcategory = "shoes" THEN "shoes"
    ELSE IF product.category \in {"shirts", "tops", "hoodies", "jackets"} THEN "top"
    ELSE IF product.category \in {"jeans", "trousers", "shorts"} THEN "bottom"
    ELSE "accessory"

\* lines 390-397: the slot a product is classified into
ItemType(product) ==
    IF product.category \in {"shirts", "tops", "hoodies", "jackets"} THEN "top"
    ELSE IF product.category \in {"jeans", "trousers", "shorts"} THEN "bottom"
    ELSE IF product.subcategory = "shoes" THEN "shoes"
    ELSE "accessory"

\* A plausible slip: the "is None" test of line 400 left out, every product added.
KeepItemAlways(item_types, item_type) == TRUE

\* line 400: the product is kept when its slot is still empty
KeepItem(item_types, item_type) == item_types[item_type] = None

\* A variant in which a later product of a slot replaces the one kept.
RECURSIVE FillSlotsLastWins(_, _, _)
FillSlotsLastWins(products, i, acc) ==
    IF i > Len(products) THEN acc
    ELSE LET product == products[i]
             item_type == ItemType(product)
             item == [type      |-> item_type,
                      name      |-> product.name,
                      brand     |-> product.brand,
                      price     |-> product.price,
                      image_url |-> product.image_url]
         IN  IF KeepItem(acc.item_types, item_type)
             THEN FillSlotsLastWins(products, i + 1,
                    [item_types   |-> [acc.item_types EXCEPT ![item_type] = product],
                     outfit_items |-> Append(acc.outfit_items, item),
                     total_price  |-> acc.total_price + product.price])
             ELSE FillSlotsLastWins(products, i + 1,
                    [item_types   |-> [acc.item_types EXCEPT ![item_type] = product],
                     outfit_items |-> [k \in 1..Len(acc.outfit_items) |->
                                          IF acc.outfit_items[k].type = item_type
                                          THEN item ELSE acc.outfit_items[k]],
                     total_price  |-> acc.total_price + product.price
                                      - acc.item_types[item_type].price])

\* lines 388-409: the loop over the products, from position i on; acc holds the
\* locals item_types, outfit_items and total_price.
RECURSIVE FillSlots(_, _, _)
FillSlots(products, i, acc) ==
    IF i > Len(products) THEN acc
    ELSE LET product == products[i]
             item_type == ItemType(product)
         IN  IF KeepItem(acc.item_types, item_type)
             THEN FillSlots(products, i + 1,
                    [item_types   |-> [acc.item_types EXCEPT ![item_type] = product],
                     outfit_items |-> Append(acc.outfit_items,
                                        [type      |-> item_type,
                                         name      |-> product.name,
                                         brand     |-> product.brand,
                                         price     |-> product.price,
                                         image_url |-> product.image_url]),
                     total_price  |-> acc.total_price + product.price])
             ELSE FillSlots(products, i + 1, acc)

\* line 412
MinOutfitItems == 2

\* lines 382-426.  f-strings are kept as tuples of their parts.
create_outfit_from_products(products, user_preferences) ==
    LET acc == FillSlots(products, 1,
                 [item_types   |-> [t \in {"top", "bottom", "shoes", "accessory"} |-> None],
                  outfit_items |-> <<>>,
                  total_price  |-> 0])
        n == Len(acc.outfit_items)
    IN  IF n >= MinOutfitItems
        THEN [outfit_id     |-> <<"generated_", n>>,
              name          |-> << Get(user_preferences, "style", "Casual"),
                                   Get(user_preferences, "color", "Multi"), "Outfit" >>,
              description   |-> << "Complete", Get(user_preferences, "style", "casual"),
                                   "outfit with", n, "items" >>,
              items         |-> acc.outfit_items,
              total_price   |-> acc.total_price,
              style         |-> Get(user_preferences, "style", "casual"),
              color_scheme  |-> Get(user_preferences, "color", "multi"),
              target_gender |-> Get(user_preferences, "gender", "unisex"),
              target_age    |-> << "str", Get(user_preferences, "age", 25) >>,
              in_stock      |-> TRUE]
        ELSE None

\* lines 367-372: the keys of style_groups, in insertion order
RECURSIVE StyleGroupKeys(_, _, _)
StyleGroupKeys(recommendations, i, keys) ==
    IF i > Len(recommendations) THEN keys
    ELSE LET style == recommendations[i].category
         IN  IF \E j \in 1..Len(keys) : keys[j] = style
             THEN StyleGroupKeys(recommendations, i + 1, keys)
             ELSE StyleGroupKeys(recommendations, i + 1, Append(keys, style))

\* style_groups[style]: the recommendations of that category, in input order
StyleGroup(recommendations, style) ==
    SelectSeq(recommendations, LAMBDA rec : rec.category = style)

\* lines 375-378: the outfits of the groups from position i on
RECURSIVE GroupOutfits(_, _, _, _)
GroupOutfits(recommendations, keys, i, user_preferences) ==
    IF i > Len(keys) THEN <<>>
    ELSE LET outfit == create_outfit_from_products(
                           StyleGroup(recommendations, keys[i]), user_preferences)
             rest == GroupOutfits(recommendations, keys, i + 1, user_preferences)
         IN  IF outfit # None THEN <<outfit>> \o rest ELSE rest

\* line 380
MaxOutfits == 5

\* A variant that cuts the list of groups, not the list of outfits: a group
\* without an outfit takes one of the MaxOutfits places.
create_complete_outfits_FirstGroups(recommendations, user_preferences) ==
    GroupOutfits(recommendations,
                 Take(StyleGroupKeys(recommendations, 1, <<>>), MaxOutfits),
                 1, user_preferences)

\* lines 362-380
create_complete_outfits(recommendations, user_preferences) ==
    Take(GroupOutfits(recommendations,
                      StyleGroupKeys(recommendations, 1, <<>>), 1, user_preferences),
         MaxOutfits)

\* Inputs of the outfit specification: lists of up to MaxGroup products.
MaxGroup == 3

OutfitKinds ==
    { [category |-> "shirts", subcategory |-> "tee", price |-> 100],
      [category |-> "shirts", subcategory |-> "shoes", price |-> 250],
      [category |-> "jeans", subcategory |-> "denim", price |-> 250],
      [category |-> "dresses", subcategory |-> "shoes", price |-> 100],
      [category |-> "dresses", subcategory |-> "bag", price |-> 250] }

\* The product row of kind k stored under id i.
ProductRow(i, k) ==
    [id |-> i, name |-> <<"product", i>>, brand |-> "brand", image_url |-> <<"img", i>>,
     category |-> k.category, subcategory |-> k.subcategory, color |-> "blue",
     price |-> k.price, target_gender |-> "unisex",
     target_age_min |-> 18, target_age_max |-> 40,
     popularity_score |-> 5, in_stock |-> TRUE]

OutfitInputs ==
    UNION { { [i \in 1..n |-> ProductRow(i, kinds[i])] : kinds \in [1..n -> OutfitKinds] }
            : n \in 0..MaxGroup }

OutfitPreferences ==
    { PrefFiller,
      [PrefFiller EXCEPT !.keys = {"style", "color", "gender", "age"}, !.style = "elegant",
                         !.color = "black", !.gender = "female", !.age = 30] }

-----------------------------------------------------------------------------
(* utils/recommender.py: the static outfit catalog and recommend_products  *)

\* The request body / user_profile of the rule-based path: keys user_id, age,
\* gender, color_pref, style_pref, budget.
ProfileKeys == {"user_id", "age", "gender", "color_pref", "style_pref", "budget"}

ProfileFiller == [keys |-> {}, user_id |-> 0, age |-> 0, gender |-> "", color_pref |-> "",
                  style_pref |-> "", budget |-> 0]

ProfileDicts(UserIds, Ages, Genders, Colors, Styles, Budgets) ==
    { d \in [keys : SUBSET ProfileKeys,
             user_id : UserIds \cup {ProfileFiller.user_id},
             age : Ages \cup {ProfileFiller.age},
             gender : Genders \cup {ProfileFiller.gender},
             color_pref : Colors \cup {ProfileFiller.color_pref},
             style_pref : Styles \cup {ProfileFiller.style_pref},
             budget : Budgets \cup {ProfileFiller.budget}] :
        /\ IF "user_id" \in d.keys THEN d.user_id \in UserIds
                                   ELSE d.user_id = ProfileFiller.user_id
        /\ IF "age" \in d.keys THEN d.age \in Ages ELSE d.age = ProfileFiller.age
        /\ IF "gender" \in d.keys THEN d.gender \in Genders
                                  ELSE d.gender = ProfileFiller.gender
        /\ IF "color_pref" \in d.keys THEN d.color_pref \in Colors
                                      ELSE d.color_pref = ProfileFiller.color_pref
        /\ IF "style_pref" \in d.keys THEN d.style_pref \in Styles
                                      ELSE d.style_pref = ProfileFiller.style_pref
        /\ IF "budget" \in d.keys THEN d.budget \in Budgets
                                  ELSE d.budget = ProfileFiller.budget }

\* lines 134-277 (image_url of the items left out)
load_products == <<
    [outfit_id |-> "outfit_001", name |-> "Business Professional Outfit",
     target_gender |-> "male", target_age |-> "25-45",
     category |-> "business", color_scheme |-> "navy", total_price |-> 12497,
     items |-> <<
          [type |-> "top", name |-> "White Formal Shirt", brand |-> "Office Wear", price |-> 1899],
          [type |-> "bottom", name |-> "Navy Blue Trousers", brand |-> "Formal Wear Co", price |-> 3499],
          [type |-> "shoes", name |-> "Brown Formal Shoes", brand |-> "Executive Style", price |-> 3999],
          [type |-> "accessory", name |-> "Brown Leather Belt", brand |-> "Accessories Plus", price |-> 1499],
          [type |-> "accessory", name |-> "Silver Watch", brand |-> "Time Style", price |-> 2599] >>,
     description |-> "Complete professional business outfit for office meetings", in_stock |-> TRUE],
    [outfit_id |-> "outfit_002", name |-> "Casual Streetwear Look",
     target_gender |-> "male", target_age |-> "18-30",
     category |-> "streetwear", color_scheme |-> "blue", total_price |-> 8497,
     items |-> <<
          [type |-> "top", name |-> "Blue Streetwear Hoodie", brand |-> "Urban Style", price |-> 2999],
          [type |-> "bottom", name |-> "Black Denim Jeans", brand |-> "Denim Co", price |-> 2499],
          [type |-> "shoes", name |-> "White Sneakers", brand |-> "Street Kicks", price |-> 3999] >>,
     description |-> "Trendy streetwear outfit for casual outings", in_stock |-> TRUE],
    [outfit_id |-> "outfit_003", name |-> "Sporty Athletic Look",
     target_gender |-> "male", target_age |-> "16-35",
     category |-> "sporty", color_scheme |-> "gray", total_price |-> 5497,
     items |-> <<
          [type |-> "top", name |-> "Gray Athletic T-Shirt", brand |-> "Athletic Pro", price |-> 1299],
          [type |-> "bottom", name |-> "Black Track Pants", brand |-> "Athletic Pro", price |-> 1499],
          [type |-> "shoes", name |-> "Red Running Shoes", brand |-> "Athletic Pro", price |-> 5499] >>,
     description |-> "Comfortable athletic outfit for workouts and sports", in_stock |-> TRUE],
    [outfit_id |-> "outfit_004", name |-> "Elegant Evening Look",
     target_gender |-> "female", target_age |-> "25-40",
     category |-> "elegant", color_scheme |-> "black", total_price |-> 15497,
     items |-> <<
          [type |-> "top", name |-> "Black Evening Dress", brand |-> "Sophisticate", price |-> 5799],
          [type |-> "shoes", name |-> "Black Heels", brand |-> "Elegant Steps", price |-> 3299],
          [type |-> "accessory", name |-> "Gold Clutch Bag", brand |-> "Luxury Bags", price |-> 4499],
          [type |-> "accessory", name |-> "Gold Earrings", brand |-> "Jewelry Plus", price |-> 1899] >>,
     description |-> "Elegant evening outfit for special occasions", in_stock |-> TRUE],
    [outfit_id |-> "outfit_005", name |-> "Casual Summer Look",
     target_gender |-> "female", target_age |-> "18-30",
     category |-> "casual", color_scheme |-> "yellow", total_price |-> 6797,
     items |-> <<
          [type |-> "top", name |-> "Yellow Summer Dress", brand |-> "Sunny Style", price |-> 2299],
          [type |-> "shoes", name |-> "Beige Flats", brand |-> "Comfort Zone", price |-> 1999],
          [type |-> "accessory", name |-> "Brown Sunglasses", brand |-> "Sun Style", price |-> 2499] >>,
     description |-> "Bright and comfortable summer outfit", in_stock |-> TRUE],
    [outfit_id |-> "outfit_006", name |-> "Modern Office Look",
     target_gender |-> "female", target_age |-> "25-35",
     category |-> "business", color_scheme |-> "gray", total_price |-> 13497,
     items |-> <<
          [type |-> "top", name |-> "Gray Business Blazer", brand |-> "Power Dress", price |-> 4499],
          [type |-> "bottom", name |-> "Black Formal Trousers", brand |-> "Power Dress", price |-> 2999],
          [type |-> "top", name |-> "White Blouse", brand |-> "Office Wear", price |-> 1899],
          [type |-> "shoes", name |-> "Black Pumps", brand |-> "Elegant Steps", price |-> 2599],
          [type |-> "accessory", name |-> "Black Handbag", brand |-> "Fashion Hub", price |-> 1499] >>,
     description |-> "Professional business outfit for modern women", in_stock |-> TRUE],
    [outfit_id |-> "outfit_007", name |-> "Casual Weekend Look",
     target_gender |-> "unisex", target_age |-> "18-35",
     category |-> "casual", color_scheme |-> "blue", total_price |-> 7497,
     items |-> <<
          [type |-> "top", name |-> "Blue Denim Jacket", brand |-> "Retro Style", price |-> 3499],
          [type |-> "top", name |-> "White T-Shirt", brand |-> "Comfort Wear", price |-> 799],
          [type |-> "bottom", name |-> "Blue Denim Jeans", brand |-> "Denim Co", price |-> 2499],
          [type |-> "shoes", name |-> "White Sneakers", brand |-> "Street Kicks", price |-> 3999] >>,
     description |-> "Comfortable casual outfit for weekends", in_stock |-> TRUE],
    [outfit_id |-> "outfit_008", name |-> "Sporty Fitness Look",
     target_gender |-> "unisex", target_age |-> "16-40",
     category |-> "sporty", color_scheme |-> "black", total_price |-> 6997,
     items |-> <<
          [type |-> "top", name |-> "Black Athletic Top", brand |-> "Fit Gear", price |-> 1999],
          [type |-> "bottom", name |-> "Black Sports Shorts", brand |-> "Athletic Pro", price |-> 1299],
          [type |-> "shoes", name |-> "White Running Shoes", brand |-> "Athletic Pro", price |-> 4499],
          [type |-> "accessory", name |-> "Sports Watch", brand |-> "Time Style", price |-> 1999] >>,
     description |-> "Complete fitness outfit for workouts", in_stock |-> TRUE] >>

\* lines 301-304, whole points
OutfitGenderPoints(outfit, user_gender) ==
    IF outfit.target_gender = "unisex" \/ CharTable[outfit.target_gender] = user_gender
    THEN 50 ELSE 0 - 30

\* lines 307-310
OutfitStylePoints(outfit, user_style) ==
    IF Lower(outfit.category) = user_style THEN 40
    ELSE IF Contains(Lower(outfit.category), user_style) THEN 20 ELSE 0

\* lines 313-316
OutfitColorPoints(outfit, user_color) ==
    IF Lower(outfit.color_scheme) = user_color THEN 30
    ELSE IF Contains(Lower(outfit.color_scheme), user_color) THEN 15 ELSE 0

\* lines 319-325 (every catalog outfit has a target_age holding a "-")
OutfitAgePoints(outfit, user_age) ==
    LET ages == SplitAges(outfit.target_age)
        min_age == ages[1]
        max_age == ages[2]
    IN  IF min_age <= user_age /\ user_age <= max_age THEN 20
        ELSE IF Abs(user_age - min_age) <= 5 \/ Abs(user_age - max_age) <= 5
             THEN 10 ELSE 0

\* A plausible slip: "<" for "<=", an outfit priced exactly at the budget is over it.
OutfitBudgetPointsStrict(outfit, user_budget) ==
    IF outfit.total_price < user_budget
    THEN IF 2 * outfit.total_price <= user_budget THEN 15 ELSE 10
    ELSE 0 - 20

\* lines 328-335; price <= budget * 0.5 is 2 * price <= budget on whole numbers
OutfitBudgetPoints(outfit, user_budget) ==
    IF outfit.total_price <= user_budget
    THEN IF 2 * outfit.total_price <= user_budget THEN 15 ELSE 10
    ELSE 0 - 20

\* A plausible slip: the out-of-stock penalty left out, only the bonus forgone.
OutfitStockPointsNoPenalty(outfit) == IF outfit.in_stock THEN 10 ELSE 0

\* lines 338-341
OutfitStockPoints(outfit) == IF outfit.in_stock THEN 10 ELSE 0 - 30

\* lines 297-343: the additions made to score for one outfit, with the locals
\* of lines 288-292 that the rules read
OutfitScoreLog(outfit, user_age, user_gender, user_color, user_style, user_budget) ==
    [outfit_id |-> outfit.outfit_id,
     total_price |-> outfit.total_price,
     user_age |-> user_age, user_gender |-> user_gender, user_color |-> user_color,
     user_style |-> user_style, user_budget |-> user_budget,
     gender |-> OutfitGenderPoints(outfit, user_gender),
     style  |-> OutfitStylePoints(outfit, user_style),
     color  |-> OutfitColorPoints(outfit, user_color),
     age    |-> OutfitAgePoints(outfit, user_age),
     budget |-> OutfitBudgetPoints(outfit, user_budget),
     stock  |-> OutfitStockPoints(outfit)]

LogScore(l) == l.gender + l.style + l.color + l.age + l.budget + l.stock

\* lines 348-362: the dict returned for a scored outfit
OutfitRecommendation(score, outfit) ==
    [outfit_id |-> outfit.outfit_id, name |-> outfit.name,
     description |-> outfit.description, score |-> score,
     style |-> outfit.category, color_scheme |-> outfit.color_scheme,
     total_price |-> outfit.total_price, items |-> outfit.items,
     target_gender |-> outfit.target_gender, target_age |-> outfit.target_age,
     in_stock |-> outfit.in_stock]

\* A plausible slip: the k best taken before the sort instead of after it.
TopKUnsorted(scored_outfits, k) == Take(scored_outfits, k)

\* lines 346-349: sort by score, highest first, and keep the first k
TopK(scored_outfits, k) == Take(SortDesc(scored_outfits, LAMBDA so : so.score), k)

\* lines 285-364: the function once load_products() has returned outfits.
\* Returns [raised, value, log].
recommend_products_over(outfits, user_profile, k) ==
    LET age_in == Get(user_profile, "age", 25)
        budget_in == Get(user_profile, "budget", 1000)
        user_gender == Lower(Get(user_profile, "gender", "male"))
        user_color == Lower(Get(user_profile, "color_pref", "blue"))
        user_style == Lower(Get(user_profile, "style_pref", "casual"))
        log == [i \in 1..Len(outfits) |->
                   OutfitScoreLog(outfits[i], age_in, user_gender, user_color,
                                  user_style, budget_in)]
        scored_outfits == [i \in 1..Len(outfits) |->
                              [score |-> LogScore(log[i]), outfit |-> outfits[i]]]
        top == TopK(scored_outfits, k)
    IN  IF outfits = <<>> THEN [raised |-> "", value |-> <<>>, log |-> <<>>]
        ELSE IF ~IsNumeric(age_in) \/ ~IsNumeric(budget_in)
        THEN [raised |-> "ValueError", value |-> <<>>, log |-> <<>>]
        ELSE [raised |-> "",
              value  |-> [i \in 1..Len(top) |->
                            OutfitRecommendation(top[i].score, top[i].outfit)],
              log    |-> log]

\* lines 280-364.  Returns [raised, value, log].
recommend_products(user_profile, k) ==
    recommend_products_over(load_products, user_profile, k)

\* The catalog with an out-of-stock copy of its i-th outfit appended (the
\* shipped catalog holds in-stock outfits only).
CatalogWithOutOfStockCopy(i) ==
    load_products \o << [load_products[i] EXCEPT !.in_stock = FALSE] >>

-----------------------------------------------------------------------------
(* ml_recommendations.py: get_fallback_recommendations                     *)

\* lines 484-501 (image_url of the items left out)
fallback_outfits == <<
    [outfit_id |-> "fallback_1", name |-> "Classic Casual Outfit",
     description |-> "A comfortable and stylish casual outfit",
     items |-> <<
          [type |-> "top", name |-> "White T-Shirt", brand |-> "Basic", price |-> 799],
          [type |-> "bottom", name |-> "Blue Jeans", brand |-> "Denim Co", price |-> 2499],
          [type |-> "shoes", name |-> "White Sneakers", brand |-> "Sports", price |-> 3999] >>,
     total_price |-> 7297, style |-> "casual", color_scheme |-> "blue_white",
     target_gender |-> "unisex", target_age |-> "20-30", in_stock |-> TRUE] >>

\* list * n: n copies of the list, none when n <= 0
RECURSIVE Repeat(_, _)
Repeat(list, n) == IF n <= 0 THEN <<>> ELSE list \o Repeat(list, n - 1)

\* lines 481-503
get_fallback_recommendations(user_profile, k) ==
    Repeat(fallback_outfits, Min(k, Len(fallback_outfits)))

-----------------------------------------------------------------------------
(* utils/recommender.py: get_recommendations without a trained scorer       *)
(* (line 374: torch, sklearn, numpy or the model file is missing)           *)

\* The position of a character in the alphabet, for the string hash below.
Ord(c) ==
    IF \E i \in 1..26 : LowerCase[i] = c THEN CHOOSE i \in 1..26 : LowerCase[i] = c
    ELSE IF \E i \in 1..26 : UpperCase[i] = c
         THEN 26 + (CHOOSE i \in 1..26 : UpperCase[i] = c)
         ELSE 53

RECURSIVE StrCode(_)
StrCode(chars) ==
    IF chars = <<>> THEN 0
    ELSE (31 * StrCode(SubSeq(chars, 1, Len(chars) - 1)) + Ord(chars[Len(chars)])) % 65536

\* hash(s) for a str.  CPython keys its string hash with a per-process random
\* seed (PYTHONHASHSEED), so the value is fixed within a process and differs
\* between processes.  This keyed mix stands for it; the result is signed.
StrCodeTable == [s \in DOMAIN CharTable |-> StrCode(CharTable[s])]

PyHash(s, seed) == ((StrCodeTable[s] * (2 * seed + 1) + 7919 * seed) % 65536) - 32768

\* lines 377-378: (abs(hash(s)) % 100), the numerator of the /100.0
HashPercent(s, seed) == Abs(PyHash(s, seed)) % 100

\* list(set(xs)): the distinct elements in hash-table order.  The order is a
\* function of the elements' hashes: by slot (hash mod table size), elements of
\* one slot in insertion order.
SetToList(xs, seed) ==
    LET first == { i \in 1..Len(xs) : \A j \in 1..(i - 1) : xs[j] # xs[i] }
        slot(i) == PyHash(xs[i], seed) % 8
        rank(i) == Cardinality({ j \in first :
                       \/ slot(j) < slot(i)
                       \/ slot(j) = slot(i) /\ j < i }) + 1
    IN  [r \in 1..Cardinality(first) |-> xs[CHOOSE i \in first : rank(i) = r]]

\* line 384
styles == << "casual", "formal", "streetwear", "business", "sporty", "elegant",
             "vintage", "modern" >>

\* line 385
colors == << "black", "white", "blue", "red", "green", "purple", "brown", "gray",
             "yellow", "pink" >>

\* list.index(x), 0-based; ValueError when x is not in the list
InList(list, x) == \E i \in 1..Len(list) : list[i] = x
IndexOf(list, x) == (CHOOSE i \in 1..Len(list) : list[i] = x /\ \A j \in 1..(i - 1) : list[j] # x) - 1

\* list[i] for a 0-based i
At(list, i) == list[i + 1]

\* lines 406-411
AgeStyles(user_age) ==
    IF user_age < 25 THEN << "casual", "sporty", "streetwear", "modern" >>
    ELSE IF user_age < 35 THEN << "casual", "business", "modern", "elegant" >>
    ELSE << "formal", "business", "elegant", "vintage" >>

\* lines 414-419
BudgetStyles(user_budget) ==
    IF user_budget > 5000 THEN << "formal", "elegant", "business", "vintage" >>
    ELSE IF user_budget > 2000 THEN << "business", "modern", "casual", "elegant" >>
    ELSE << "casual", "sporty", "streetwear" >>

\* lines 375-380: base, in units of 1/10000
BaseScore(user_profile, seed) ==
    LET age == Get(user_profile, "age", 28)
        gender == IF Lower(Get(user_profile, "gender", "f"))[1] = "f" THEN 1 ELSE 0
        color == HashPercent(Get(user_profile, "color_pref", "black"), seed)
        style == HashPercent(Get(user_profile, "style_pref", "streetwear"), seed)
        budget == Get(user_profile, "budget", 100)
    IN  40 * age + 1000 * gender + 25 * color + 15 * style + budget

\* A variant whose third entry takes the user's own style (the + 1 of line 402
\* left out).
PseudoEntrySameStyle(i, user_style, user_color, user_age, user_budget, seed) ==
    IF i = 0 THEN [raised |-> "", style |-> user_style, color |-> user_color]
    ELSE IF i = 1
    THEN IF InList(colors, user_color)
         THEN [raised |-> "", style |-> user_style,
               color |-> At(colors, (IndexOf(colors, user_color) + 1) % Len(colors))]
         ELSE [raised |-> "ValueError", style |-> "", color |-> ""]
    ELSE IF i = 2
    THEN IF InList(styles, user_style)
         THEN [raised |-> "",
               style |-> At(styles, IndexOf(styles, user_style) % Len(styles)),
               color |-> user_color]
         ELSE [raised |-> "ValueError", style |-> "", color |-> ""]
    ELSE LET preferred_styles ==
                 SetToList(AgeStyles(user_age) \o BudgetStyles(user_budget), seed)
         IN  [raised |-> "",
              style |-> At(preferred_styles, i % Len(preferred_styles)),
              color |-> At(colors, (i * 2) % Len(colors))]

\* lines 395-426: [raised, style, color] of entry i (0-based)
PseudoEntry(i, user_style, user_color, user_age, user_budget, seed) ==
    IF i = 0 THEN [raised |-> "", style |-> user_style, color |-> user_color]
    ELSE IF i = 1
    THEN IF InList(colors, user_color)
         THEN [raised |-> "", style |-> user_style,
               color |-> At(colors, (IndexOf(colors, user_color) + 1) % Len(colors))]
         ELSE [raised |-> "ValueError", style |-> "", color |-> ""]
    ELSE IF i = 2
    THEN IF InList(styles, user_style)
         THEN [raised |-> "",
               style |-> At(styles, (IndexOf(styles, user_style) + 1) % Len(styles)),
               color |-> user_color]
         ELSE [raised |-> "ValueError", style |-> "", color |-> ""]
    ELSE LET preferred_styles ==
                 SetToList(AgeStyles(user_age) \o BudgetStyles(user_budget), seed)
         IN  [raised |-> "",
              style |-> At(preferred_styles, i % Len(preferred_styles)),
              color |-> At(colors, (i * 2) % Len(colors))]

\* lines 367-435 with no trained scorer.  Returns [raised, value].
\* gender "" (str(...).lower().startswith("f") on an empty string) is False.
get_recommendations(user_profile, k, seed) ==
    LET age_in == Get(user_profile, "age", 28)
        budget_in == Get(user_profile, "budget", 100)
        user_style == Get(user_profile, "style_pref", "casual")
        user_color == Get(user_profile, "color_pref", "black")
        user_age == Get(user_profile, "age", 25)
        user_budget == Get(user_profile, "budget", 1000)
        base == BaseScore(user_profile, seed)
        entry(i) == PseudoEntry(i, user_style, user_color, user_age, user_budget, seed)
    IN  IF ~IsNumeric(age_in) \/ ~IsNumeric(budget_in)
        THEN [raised |-> "ValueError", value |-> <<>>]
        ELSE IF \E i \in 0..(k - 1) : entry(i).raised # ""
        THEN [raised |-> "ValueError", value |-> <<>>]
        ELSE [raised |-> "",
              value |-> [n \in 1..k |->
                           [item_id |-> <<"itm_", n - 1>>,
                            name    |-> <<"Recommended Outfit", n>>,
                            score   |-> base - (n - 1) * 200,
                            style   |-> entry(n - 1).style,
                            color   |-> entry(n - 1).color]]]

\* Inputs of the fallback specification.
MaxK == 3

\* The hash seeds a server process may draw (two are enough to tell processes apart).
HashSeeds == {0, 1}

\* The counts asked for: small ones, the default of recommend_products (8) and
\* one more than the static catalog holds.
KValues == (0..MaxK) \cup {Len(load_products), Len(load_products) + 1}

FallbackProfiles ==
    ProfileDicts({}, {22, 30, NonNumeric}, {"female"},
                 {"black", "navy"}, {"elegant", "Elegant", "sport"},
                 {500, 15497, NonNumeric})

-----------------------------------------------------------------------------
(* State that the operations below leave alone                             *)

\* fashion_db.sqlite cannot be opened (sqlite3.connect raises)
NoStore == [status |-> "unreachable", products |-> <<>>, interactions |-> {},
            bulk_rated |-> 0]

\* self.user_item_matrix = None, self.item_features_matrix = None, self.svd_model = None
NoMatrix == [built |-> FALSE, ratings |-> {}, bulk_rated |-> 0]
NoFeatures == [built |-> FALSE, ids |-> <<>>]
NoModel == [state |-> "none", fitted_on |-> NoMatrix]

IdleEngine ==
    /\ store = NoStore
    /\ conn = "none"
    /\ user_item_matrix = NoMatrix
    /\ item_features_matrix = NoFeatures
    /\ svd_model = NoModel

EngineUnchanged ==
    UNCHANGED << store, conn, user_item_matrix, item_features_matrix, svd_model >>

-----------------------------------------------------------------------------
(* The data store (fashion_db.sqlite) as the engine's queries see it        *)

\* line 108: TruncatedSVD(n_components=50)
n_components == 50

\* Bounds of the stores the model enumerates.
NumProducts == 2
MaxInteractions == 1
MaxN == 4

UserIds == {1, 2}
Ratings == {0, 5}

\* The kinds of product rows: two in-stock products of one category that fill
\* different slots, and a popular product that is out of stock.
StoreKinds ==
    { [category |-> "dresses", subcategory |-> "shoes", price |-> 100,
       popularity_score |-> 5, in_stock |-> TRUE],
      [category |-> "dresses", subcategory |-> "bag", price |-> 250,
       popularity_score |-> 9, in_stock |-> TRUE],
      [category |-> "shirts", subcategory |-> "tops", price |-> 100,
       popularity_score |-> 9, in_stock |-> FALSE] }

\* The row of kind k stored under id i.
StoredProduct(i, k) ==
    [ProductRow(i, k) EXCEPT !.popularity_score = k.popularity_score,
                             !.in_stock = k.in_stock]

\* products tables of up to NumProducts rows, ids in rowid order
Catalogs ==
    UNION { { [i \in 1..n |-> StoredProduct(i, kinds[i])] : kinds \in [1..n -> StoreKinds] }
            : n \in 0..NumProducts }

\* user_interactions rows that survive the joins of lines 39-46: the user and
\* the product exist and the rating is not NULL.
InteractionRows(products) ==
    [user_id : UserIds, product_id : { products[i].id : i \in DOMAIN products },
     rating : Ratings]

\* the sets of at most k of the rows
RECURSIVE UpTo(_, _)
UpTo(rows, k) ==
    IF k = 0 THEN { {} }
    ELSE LET fewer == UpTo(rows, k - 1)
         IN  fewer \cup { s \cup {row} : s \in fewer, row \in rows }

InteractionSets(products) == UpTo(InteractionRows(products), MaxInteractions)

\* A store with its tables.  bulk_rated counts further rated products that the
\* model does not track one by one: they are out of stock and every user with
\* an interaction has rated each of them (rating > 0).  They only widen the
\* user-item matrix: with n_components of them TruncatedSVD.fit has enough
\* columns, with none it has not.
StoresWithTables ==
    UNION { UNION { { [status |-> "ok", products |-> products,
                       interactions |-> interactions, bulk_rated |-> bulk]
                      : bulk \in IF interactions = {} THEN {0} ELSE {0, n_components} }
                    : interactions \in InteractionSets(products) }
            : products \in Catalogs }

\* sqlite3.connect creates a missing file: a database without tables.
EmptyStore == [status |-> "no_tables", products |-> <<>>, interactions |-> {},
               bulk_rated |-> 0]

Stores == StoresWithTables \cup {EmptyStore, NoStore}

\* pd.read_sql_query(query, self.conn) returns rows: the connection is open and
\* the tables exist.  Otherwise it raises.
ReadOk(st, c) == c = "open" /\ st.status = "ok"

\* A plausible slip: the in_stock filter left out of the query.
AllRows(products) == products

\* WHERE in_stock = TRUE, in rowid order
InStockRows(products) == SelectSeq(products, LAMBDA p : p.in_stock)

\* The lists that hold each element of the set S once (the orders in which a
\* set can be iterated)
ListsOf(S) ==
    { l \in [1..Cardinality(S) -> S] :
        \A i, j \in 1..Cardinality(S) : l[i] = l[j] => i = j }

\* ORDER BY popularity_score DESC: SQL leaves the order of equal keys open
OrderedByPopularity(rows) ==
    { [i \in 1..Len(rows) |-> rows[l[i]]] : l \in
        { l \in ListsOf(1..Len(rows)) :
            \A i, j \in 1..Len(rows) :
                i < j => rows[l[i]].popularity_score >= rows[l[j]].popularity_score } }

\* LIMIT ? for a count >= 0
Limit(rows, n) == Take(rows, n)

-----------------------------------------------------------------------------
(* FashionRecommendationEngine: training                                    *)

\* index and columns of the pivot table (lines 63-68)
MatrixIndex(m) == { r.user_id : r \in m.ratings }
MatrixColumns(m) == { r.product_id : r \in m.ratings }
NumColumns(m) == Cardinality(MatrixColumns(m)) + m.bulk_rated

\* the columns where the user's row is > 0 (line 134); a cell is the mean of
\* the ratings of the pair, positive exactly when one of them is
RatedBy(m, user_id) ==
    { r.product_id : r \in { x \in m.ratings : x.user_id = user_id /\ x.rating > 0 } }

\* lines 428-444, with build_user_item_matrix (60-69), build_item_features_matrix
\* (71-100) and train_collaborative_filtering (102-111).  The outcomes: the
\* exception raised ("" for none) and the engine's fields when the call ends.
\* What pivot_table does with an empty frame depends on the pandas version
\* (an empty table, or "No numeric types to aggregate").
train_models(st, c, m, f, svd) ==
    LET unchanged == [user_item_matrix |-> m, item_features_matrix |-> f,
                      svd_model |-> svd]
        interactions_df == st.interactions
        products_df == InStockRows(st.products)
        matrix == [built |-> TRUE, ratings |-> interactions_df,
                   bulk_rated |-> st.bulk_rated]
        features == [built |-> TRUE,
                     ids |-> [i \in 1..Len(products_df) |-> products_df[i].id]]
        after_pivot ==
            IF products_df = <<>>
            THEN \* TfidfVectorizer.fit_transform: empty vocabulary
                 [raised |-> "ValueError", user_item_matrix |-> matrix,
                  item_features_matrix |-> f, svd_model |-> svd]
            ELSE IF interactions_df = {}
            THEN [raised |-> "", user_item_matrix |-> matrix,
                  item_features_matrix |-> features, svd_model |-> svd]
            ELSE IF n_components > NumColumns(matrix)
            THEN \* line 108 has assigned the model, line 109 (fit) raises
                 [raised |-> "ValueError", user_item_matrix |-> matrix,
                  item_features_matrix |-> features,
                  svd_model |-> [state |-> "unfitted", fitted_on |-> NoMatrix]]
            ELSE [raised |-> "", user_item_matrix |-> matrix,
                  item_features_matrix |-> features,
                  svd_model |-> [state |-> "fitted", fitted_on |-> matrix]]
    IN  IF ~ReadOk(st, c)
        THEN { [raised |-> "DatabaseError"] @@ unchanged }
        ELSE IF interactions_df = {}
        THEN { after_pivot, [raised |-> "DataError"] @@ unchanged }
        ELSE { after_pivot }

-----------------------------------------------------------------------------
(* FashionRecommendationEngine: the scoring sources                         *)

\* lines 345-360: the lists the query can return, as (id, popularity_score)
\* pairs; an exception of the query is caught and gives the empty list.
get_popular_items(st, c, n_items) ==
    IF ~ReadOk(st, c) THEN { <<>> }
    ELSE { [i \in 1..Len(Limit(results, n_items)) |->
               << results[i].id, results[i].popularity_score >>]
           : results \in OrderedByPopularity(InStockRows(st.products)) }

\* The ratings the factorization can predict for an item (in whole points).
PredictedRatings == {0, 3}

\* A variant that looks the user up before it tests the model: an unknown user
\* of an engine without a model gets the popularity list.
get_collaborative_recommendations_LookupFirst(st, c, m, svd, user_id, n_recommendations) ==
    IF user_id \notin MatrixIndex(m)
    THEN { [raised |-> "", value |-> popular]
           : popular \in get_popular_items(st, c, n_recommendations) }
    ELSE IF svd.state = "none"
    THEN { [raised |-> "ValueError", value |-> <<>>] }
    ELSE IF svd.state = "unfitted"
    THEN { [raised |-> "NotFittedError", value |-> <<>>] }
    ELSE IF NumColumns(svd.fitted_on) # NumColumns(m)
    THEN { [raised |-> "ValueError", value |-> <<>>] }
    ELSE LET unrated == MatrixColumns(m) \ RatedBy(m, user_id)
         IN  { [raised |-> "",
                value  |-> Take(SortDesc([i \in 1..Len(unrated_items) |->
                                            << unrated_items[i],
                                               predicted_ratings[unrated_items[i]] >>],
                                         LAMBDA pair : pair[2]),
                                n_recommendations)]
               : unrated_items \in ListsOf(unrated),
                 predicted_ratings \in [unrated -> PredictedRatings] }

\* lines 113-147.  The outcomes [raised, value]: value is a list of
\* (item_id, score) pairs.  The predicted ratings come from the fitted model;
\* list(all_items - user_items) iterates a set.
get_collaborative_recommendations(st, c, m, svd, user_id, n_recommendations) ==
    IF svd.state = "none"
    THEN { [raised |-> "ValueError", value |-> <<>>] }
    ELSE IF user_id \notin MatrixIndex(m)
    THEN { [raised |-> "", value |-> popular]
           : popular \in get_popular_items(st, c, n_recommendations) }
    ELSE IF svd.state = "unfitted"
    THEN { [raised |-> "NotFittedError", value |-> <<>>] }
    ELSE IF NumColumns(svd.fitted_on) # NumColumns(m)
    THEN { [raised |-> "ValueError", value |-> <<>>] }
    ELSE LET unrated == MatrixColumns(m) \ RatedBy(m, user_id)
         IN  { [raised |-> "",
                value  |-> Take(SortDesc([i \in 1..Len(unrated_items) |->
                                            << unrated_items[i],
                                               predicted_ratings[unrated_items[i]] >>],
                                         LAMBDA pair : pair[2]),
                                n_recommendations)]
               : unrated_items \in ListsOf(unrated),
                 predicted_ratings \in [unrated -> PredictedRatings] }

\* lines 73-80 and 94: the columns of a product that its row of the feature
\* matrix is computed from (material and season are not modelled)
FeatureColumns ==
    { "brand", "category", "subcategory", "color", "price", "popularity_score" }

FeatureRow(p) == [col \in FeatureColumns |-> p[col]]

\* The cosine similarities the model tells apart, in hundredths.
SimilarityLevels == {0, 50, 100}

\* line 166: the similarity of row product_idx with every row of the matrix.
\* A row is as similar to itself as rows can be, and rows computed from equal
\* columns are equally similar to it.
CosineSimilarities(rows, product_idx) ==
    { similarities \in [1..Len(rows) -> SimilarityLevels] :
        /\ similarities[product_idx] = 100
        /\ \A i, j \in 1..Len(rows) :
              FeatureRow(rows[i]) = FeatureRow(rows[j]) => similarities[i] = similarities[j] }

\* numpy argsort: the indices in ascending order of the values; the order of
\* equal values depends on the sort numpy selects for the array.
ArgSort(values) ==
    { l \in ListsOf(DOMAIN values) :
        \A i, j \in 1..Len(l) : i < j => values[l[i]] <= values[l[j]] }

\* [::-1]
Reversed(l) == [i \in 1..Len(l) |-> l[Len(l) + 1 - i]]

\* [1:stop] of a list, stop >= 1
SliceFromSecond(l, stop) ==
    [i \in 1..(Min(stop, Len(l)) - 1) |-> l[i + 1]]

\* lines 149-177.  The outcomes [raised, value]: value is a list of
\* (product_id, similarity) pairs.  Row i of the feature matrix is the i-th
\* in-stock product (line 55), product_indices numbers all products in id
\* order (line 155).  scipy's hstack (line 98) returns a COO matrix, which
\* line 165 can slice only where the installed scipy indexes that format.
get_content_based_recommendations(st, c, f, product_id, n_recommendations) ==
    IF ~f.built
    THEN { [raised |-> "ValueError", value |-> <<>>] }
    ELSE IF ~ReadOk(st, c)
    THEN { [raised |-> "DatabaseError", value |-> <<>>] }
    ELSE LET products == st.products
             matrix_rows == InStockRows(products)
         IN  IF ~\E i \in DOMAIN products : products[i].id = product_id
             THEN { [raised |-> "", value |-> <<>>] }
             ELSE LET product_idx == CHOOSE i \in DOMAIN products :
                                         products[i].id = product_id
                  IN  { [raised |-> "TypeError", value |-> <<>>] }
                      \cup
                      IF product_idx > Len(matrix_rows)
                      THEN \* an empty slice: cosine_similarity rejects 0 samples
                           { [raised |-> "ValueError", value |-> <<>>] }
                      ELSE UNION {
                             { [raised |-> "",
                                value  |->
                                  LET similar_indices ==
                                          SliceFromSecond(Reversed(order),
                                                          n_recommendations + 1)
                                  IN  [i \in 1..Len(similar_indices) |->
                                          << products[similar_indices[i]].id,
                                             similarities[similar_indices[i]] >>]]
                               : order \in ArgSort(similarities) }
                             : similarities \in CosineSimilarities(matrix_rows,
                                                                   product_idx) }

\* lines 243-262: the preference keys that add a condition, in the order tested
PreferenceConditions(preferences) ==
    SelectSeq(<< "gender", "color", "style", "budget", "age" >>,
              LAMBDA key : Has(preferences, key))

\* line 234: the columns the query selects
PreferenceColumns ==
    { "id", "name", "brand", "category", "color", "price", "target_gender",
      "target_age_min", "target_age_max" }

\* lines 231-282.  The query text already ends in "WHERE in_stock = TRUE":
\* with a condition, line 265 appends a second WHERE and sqlite rejects the
\* statement.  Every exception is caught at line 280 and gives the empty list.
find_products_by_preferences(st, c, preferences, n_recommendations) ==
    IF ~ReadOk(st, c) \/ PreferenceConditions(preferences) # <<>>
    THEN <<>>
    ELSE LET results == Limit(SortDesc(InStockRows(st.products),
                                       LAMBDA p : p.popularity_score),
                              n_recommendations)
             row(i) == [col \in PreferenceColumns |-> results[i][col]]
             scored == [i \in 1..Len(results) |->
                           calculate_preference_score(row(i), preferences)]
         IN  IF \E i \in 1..Len(results) : scored[i].raised # ""
             THEN <<>>
             ELSE SortDesc([i \in 1..Len(results) |-> << results[i].id, scored[i].score >>],
                           LAMBDA pair : pair[2])

\* lines 329-331: the selected columns that the model's rows carry (size,
\* description, season and material are not modelled)
DetailColumns ==
    { "id", "name", "brand", "category", "subcategory", "color", "price", "image_url",
      "target_gender", "target_age_min", "target_age_max", "popularity_score" }

\* lines 326-343: the row as a dict, None for an unknown or out-of-stock
\* product and when the query raises
get_product_details(st, c, product_id) ==
    IF ReadOk(st, c)
       /\ \E i \in DOMAIN st.products :
              st.products[i].id = product_id /\ st.products[i].in_stock
    THEN LET i == CHOOSE i \in DOMAIN st.products : st.products[i].id = product_id
         IN  [col \in DetailColumns |-> st.products[i][col]]
    ELSE None

-----------------------------------------------------------------------------
(* FashionRecommendationEngine.get_hybrid_recommendations                   *)

\* A variant that keeps the last entry of every product id.
DeduplicateKeepLast(recommendations) ==
    LET kept == { i \in 1..Len(recommendations) :
                    \A j \in (i + 1)..Len(recommendations) :
                        recommendations[j].product_id # recommendations[i].product_id }
        pos(r) == CHOOSE i \in kept : Cardinality({ j \in kept : j <= i }) = r
    IN  [r \in 1..Cardinality(kept) |-> recommendations[pos(r)]]

\* lines 209-214: the first entry of every product id, in list order
Deduplicate(recommendations) ==
    LET kept == { i \in 1..Len(recommendations) :
                    \A j \in 1..(i - 1) :
                        recommendations[j].product_id # recommendations[i].product_id }
        pos(r) == CHOOSE i \in kept : Cardinality({ j \in kept : j <= i }) = r
    IN  [r \in 1..Cardinality(kept) |-> recommendations[pos(r)]]

\* A variant without the try/except of lines 184-193: a failure of the
\* collaborative source ends the blend with nothing.
BlendSourcesAbandoned(st, c, cf, matching_products, n_recommendations) ==
    LET recommendations ==
            [i \in 1..Len(cf.value) |->
                [product_id |-> cf.value[i][1], score |-> cf.value[i][2] * 60,
                 source |-> "collaborative"]]
            \o [i \in 1..Len(matching_products) |->
                [product_id |-> matching_products[i][1],
                 score |-> matching_products[i][2] * 4, source |-> "content"]]
        unique_recommendations ==
            SortDesc(Deduplicate(recommendations), LAMBDA rec : rec.score)
        top == Take(unique_recommendations, n_recommendations)
        detailed == SelectSeq(top, LAMBDA rec :
                                 get_product_details(st, c, rec.product_id) # None)
    IN  IF cf.raised # "" THEN <<>>
        ELSE [i \in 1..Len(detailed) |->
                [recommendation_score |-> detailed[i].score,
                 recommendation_source |-> detailed[i].source]
                @@ get_product_details(st, c, detailed[i].product_id)]

\* lines 181-229 once the two sources have answered.  cf: the outcome of the
\* collaborative call; matching_products: the preference search's list.
\* Scores in hundredths: a collaborative score is in whole points (x 0.6 = 60
\* hundredths a point), a preference score in tenths (x 0.4 = 4 hundredths a
\* tenth).
BlendSources(st, c, cf, matching_products, n_recommendations) ==
    LET cf_recs == IF cf.raised = "" THEN cf.value ELSE <<>>
        recommendations ==
            [i \in 1..Len(cf_recs) |->
                [product_id |-> cf_recs[i][1], score |-> cf_recs[i][2] * 60,
                 source |-> "collaborative"]]
            \o [i \in 1..Len(matching_products) |->
                [product_id |-> matching_products[i][1],
                 score |-> matching_products[i][2] * 4, source |-> "content"]]
        unique_recommendations ==
            SortDesc(Deduplicate(recommendations), LAMBDA rec : rec.score)
        top == Take(unique_recommendations, n_recommendations)
        detailed == SelectSeq(top, LAMBDA rec :
                                 get_product_details(st, c, rec.product_id) # None)
    IN  [i \in 1..Len(detailed) |->
            [recommendation_score |-> detailed[i].score,
             recommendation_source |-> detailed[i].source]
            @@ get_product_details(st, c, detailed[i].product_id)]

\* lines 179-229: the lists the call can return (it raises nothing)
get_hybrid_recommendations(st, c, m, svd, user_id, user_preferences, n_recommendations) ==
    { BlendSources(st, c, cf,
                   find_products_by_preferences(st, c, user_preferences,
                                                n_recommendations \div 2),
                   n_recommendations)
      : cf \in get_collaborative_recommendations(st, c, m, svd, user_id,
                                                 n_recommendations \div 2) }

\* lines 446-454
get_recommendations_for_user(st, c, m, svd, user_id, user_preferences) ==
    { create_complete_outfits(product_recommendations, user_preferences)
      : product_recommendations \in
          get_hybrid_recommendations(st, c, m, svd, user_id, user_preferences, 20) }

-----------------------------------------------------------------------------
(* get_fashion_recommendations and POST /api/recommendations                *)

\* lines 29-35: the connection after connect_database; a failure is caught
\* and leaves self.conn as it was
connect_database(st, c) == IF st.status = "unreachable" THEN c ELSE "open"

\* ml_recommendations.py lines 459-479, on the module-level engine.  The
\* outcomes: the list returned and the engine's fields when the call ends.
get_fashion_recommendations(st, c, m, f, svd, user_profile, k) ==
    LET c1 == connect_database(st, c)
        served(t) ==
            IF t.raised # ""
            THEN { get_fallback_recommendations(user_profile, k) }
            ELSE { Take(recommendations, k)
                   : recommendations \in
                       get_recommendations_for_user(st, c1, t.user_item_matrix,
                           t.svd_model, Get(user_profile, "user_id", 1), user_profile) }
    IN  UNION { { [value |-> value, conn |-> c1,
                   user_item_matrix |-> t.user_item_matrix,
                   item_features_matrix |-> t.item_features_matrix,
                   svd_model |-> t.svd_model] : value \in served(t) }
                : t \in train_models(st, c1, m, f, svd) }

\* app.py lines 47-54: the profile handed to the engine
EngineProfile(data) ==
    [keys    |-> PrefKeys,
     user_id |-> Get(data, "user_id", 1),
     age     |-> Get(data, "age", 25),
     gender  |-> Get(data, "gender", "male"),
     color   |-> Get(data, "color_pref", "blue"),
     style   |-> Get(data, "style_pref", "casual"),
     budget  |-> Get(data, "budget", 5000)]

\* app.py lines 40-67.  ml_available: "from ml_recommendations import ..."
\* succeeds (pandas, numpy and scikit-learn are installed).  The outcomes: the
\* HTTP response and the engine's fields when the handler ends.
api_recommendations(st, c, m, f, svd, data, ml_available) ==
    IF ml_available
    THEN { [response |-> [status |-> 200, recommendations |-> o.value],
            log |-> <<>>, conn |-> o.conn, user_item_matrix |-> o.user_item_matrix,
            item_features_matrix |-> o.item_features_matrix,
            svd_model |-> o.svd_model]
           : o \in get_fashion_recommendations(st, c, m, f, svd, EngineProfile(data), 8) }
    ELSE LET r == recommend_products(data, 8)
         IN  { [response |-> IF r.raised = ""
                             THEN [status |-> 200, recommendations |-> r.value]
                             ELSE [status |-> 500, error |-> r.raised],
                log |-> r.log, conn |-> c, user_item_matrix |-> m, item_features_matrix |-> f,
                svd_model |-> svd] }

\* The request bodies: none of the keys, another user, a non-numeric age, and
\* a full profile.
ApiRequests ==
    { ProfileFiller,
      [ProfileFiller EXCEPT !.keys = {"user_id"}, !.user_id = 2],
      [ProfileFiller EXCEPT !.keys = {"age"}, !.age = NonNumeric],
      [keys |-> ProfileKeys, user_id |-> 1, age |-> 30, gender |-> "female",
       color_pref |-> "black", style_pref |-> "elegant", budget |-> 15497] }

\* The preference records of direct calls to the engine.
EnginePreferences ==
    { PrefFiller,
      [keys |-> PrefKeys, user_id |-> 2, age |-> 30, gender |-> "female",
       color |-> "black", style |-> "dresses", budget |-> 15497] }

-----------------------------------------------------------------------------
(* Calls.  The service is single-threaded and synchronous: one operation    *)
(* runs at a time.  op = "idle" between calls; a call records its           *)
(* arguments and outcome, and Return hands control back to the caller.      *)

Idle ==
    /\ op = "idle"
    /\ args = <<>>
    /\ result = <<>>
    /\ raised = ""
    /\ score_log = <<>>

Return ==
    /\ op # "idle"
    /\ op' = "idle"
    /\ args' = <<>>
    /\ result' = <<>>
    /\ raised' = ""
    /\ score_log' = <<>>
    /\ UNCHANGED hash_seed
    /\ EngineUnchanged

-----------------------------------------------------------------------------
(* Specification of the preference matcher called on its own               *)

\* No request has been served: the engine is as constructed, nothing is running.
InitIdle ==
    /\ IdleEngine
    /\ hash_seed = 0
    /\ Idle

CalculatePreferenceScore ==
    /\ op = "idle"
    /\ \E product \in ScoreProducts, preferences \in ScorePreferences :
        LET r == calculate_preference_score(product, preferences)
        IN  /\ op' = "calculate_preference_score"
            /\ args' = [product |-> product, preferences |-> preferences]
            /\ result' = r.score
            /\ raised' = r.raised
    /\ UNCHANGED << hash_seed, score_log >>
    /\ EngineUnchanged

NextScore == CalculatePreferenceScore \/ Return

SpecScore == InitIdle /\ [][NextScore]_vars

-----------------------------------------------------------------------------
(* Specification of the outfit assembler called on its own                 *)

CreateOutfitFromProducts ==
    /\ op = "idle"
    /\ \E products \in OutfitInputs, user_preferences \in OutfitPreferences :
        /\ op' = "create_outfit_from_products"
        /\ args' = [products |-> products, user_preferences |-> user_preferences]
        /\ result' = create_outfit_from_products(products, user_preferences)
    /\ raised' = ""
    /\ UNCHANGED << hash_seed, score_log >>
    /\ EngineUnchanged

CreateCompleteOutfits ==
    /\ op = "idle"
    /\ \E recommendations \in OutfitInputs, user_preferences \in OutfitPreferences :
        /\ op' = "create_complete_outfits"
        /\ args' = [recommendations |-> recommendations,
                    user_preferences |-> user_preferences]
        /\ result' = create_complete_outfits(recommendations, user_preferences)
    /\ raised' = ""
    /\ UNCHANGED << hash_seed, score_log >>
    /\ EngineUnchanged

NextOutfit == CreateOutfitFromProducts \/ CreateCompleteOutfits \/ Return

SpecOutfit == InitIdle /\ [][NextOutfit]_vars

-----------------------------------------------------------------------------
(* Specification of the rule-based fallbacks called on their own           *)

InitPseudo ==
    /\ IdleEngine
    /\ hash_seed \in HashSeeds
    /\ Idle

RecommendProducts ==
    /\ op = "idle"
    /\ \E user_profile \in FallbackProfiles, k \in KValues :
        LET r == recommend_products(user_profile, k)
        IN  /\ op' = "recommend_products"
            /\ args' = [user_profile |-> user_profile, k |-> k]
            /\ result' = r.value
            /\ raised' = r.raised
            /\ score_log' = r.log
    /\ UNCHANGED hash_seed
    /\ EngineUnchanged

GetFallbackRecommendations ==
    /\ op = "idle"
    /\ \E user_profile \in {ProfileFiller}, k \in KValues :
        /\ op' = "get_fallback_recommendations"
        /\ args' = [user_profile |-> user_profile, k |-> k]
        /\ result' = get_fallback_recommendations(user_profile, k)
    /\ raised' = ""
    /\ UNCHANGED << hash_seed, score_log >>
    /\ EngineUnchanged

GetRecommendations ==
    /\ op = "idle"
    /\ \E user_profile \in FallbackProfiles, k \in KValues :
        LET r == get_recommendations(user_profile, k, hash_seed)
        IN  /\ op' = "get_recommendations"
            /\ args' = [user_profile |-> user_profile, k |-> k]
            /\ result' = r.value
            /\ raised' = r.raised
    /\ UNCHANGED << hash_seed, score_log >>
    /\ EngineUnchanged

\* The caller feeds the same profile and k again.
GetRecommendationsAgain ==
    /\ op = "get_recommendations"
    /\ LET r == get_recommendations(args.user_profile, args.k, hash_seed)
       IN  /\ result' = r.value
           /\ raised' = r.raised
    /\ UNCHANGED << op, args, hash_seed, score_log >>
    /\ EngineUnchanged

\* The server process is restarted: the interpreter draws a new hash seed.  The
\* caller still holds the answer of its last call.
RestartProcess ==
    /\ op = "get_recommendations"
    /\ \E seed \in HashSeeds :
        /\ seed # hash_seed
        /\ hash_seed' = seed
    /\ UNCHANGED << op, args, result, raised, score_log >>
    /\ EngineUnchanged

\* The static-catalog fallbacks (they read no hash).
NextFallback ==
    \/ RecommendProducts
    \/ GetFallbackRecommendations
    \/ Return

SpecFallback == InitIdle /\ [][NextFallback]_vars

\* recommend_products over a catalog that holds an out-of-stock outfit; every
\* outfit is returned.
RecommendProductsOutOfStock ==
    /\ op = "idle"
    /\ \E user_profile \in FallbackProfiles, i \in 1..Len(load_products) :
        LET outfits == CatalogWithOutOfStockCopy(i)
            r == recommend_products_over(outfits, user_profile, Len(outfits))
        IN  /\ op' = "recommend_products"
            /\ args' = [user_profile |-> user_profile, k |-> Len(outfits),
                        outfits |-> outfits]
            /\ result' = r.value
            /\ raised' = r.raised
            /\ score_log' = r.log
    /\ UNCHANGED hash_seed
    /\ EngineUnchanged

NextStock == RecommendProductsOutOfStock \/ Return

SpecStock == InitIdle /\ [][NextStock]_vars

\* The deterministic pseudo-recommendations, across process restarts.
NextPseudo ==
    \/ GetRecommendations
    \/ GetRecommendationsAgain
    \/ RestartProcess
    \/ Return

SpecPseudo == InitPseudo /\ [][NextPseudo]_vars

-----------------------------------------------------------------------------
(* Specification of the engine over a data store                            *)

Init ==
    /\ store \in Stores
    /\ conn = "none"
    /\ user_item_matrix = NoMatrix
    /\ item_features_matrix = NoFeatures
    /\ svd_model = NoModel
    /\ hash_seed = 0
    /\ Idle

ConnectDatabase ==
    /\ op = "idle"
    /\ conn' = connect_database(store, conn)
    /\ op' = "connect_database"
    /\ args' = <<>>
    /\ result' = None
    /\ raised' = ""
    /\ UNCHANGED << store, user_item_matrix, item_features_matrix, svd_model,
                    hash_seed, score_log >>

TrainModels ==
    /\ op = "idle"
    /\ \E t \in train_models(store, conn, user_item_matrix, item_features_matrix,
                             svd_model) :
        /\ user_item_matrix' = t.user_item_matrix
        /\ item_features_matrix' = t.item_features_matrix
        /\ svd_model' = t.svd_model
        /\ raised' = t.raised
    /\ op' = "train_models"
    /\ args' = <<>>
    /\ result' = None
    /\ UNCHANGED << store, conn, hash_seed, score_log >>

GetCollaborativeRecommendations ==
    /\ op = "idle"
    /\ \E user_id \in UserIds, n \in 0..MaxN :
        \E r \in get_collaborative_recommendations(store, conn, user_item_matrix,
                                                   svd_model, user_id, n) :
            /\ op' = "get_collaborative_recommendations"
            /\ args' = [user_id |-> user_id, n_recommendations |-> n]
            /\ result' = r.value
            /\ raised' = r.raised
    /\ UNCHANGED << hash_seed, score_log >>
    /\ EngineUnchanged

GetHybridRecommendations ==
    /\ op = "idle"
    /\ \E user_id \in UserIds, user_preferences \in EnginePreferences, n \in 0..MaxN :
        \E r \in get_hybrid_recommendations(store, conn, user_item_matrix, svd_model,
                                            user_id, user_preferences, n) :
            /\ op' = "get_hybrid_recommendations"
            /\ args' = [user_id |-> user_id, user_preferences |-> user_preferences,
                        n_recommendations |-> n]
            /\ result' = r
    /\ raised' = ""
    /\ UNCHANGED << hash_seed, score_log >>
    /\ EngineUnchanged

ApiRecommendations ==
    /\ op = "idle"
    /\ \E data \in ApiRequests, ml_available \in BOOLEAN :
        \E o \in api_recommendations(store, conn, user_item_matrix,
                                     item_features_matrix, svd_model, data,
                                     ml_available) :
            /\ op' = "api_recommendations"
            /\ args' = [data |-> data, ml_available |-> ml_available]
            /\ result' = o.response
            /\ score_log' = o.log
            /\ conn' = o.conn
            /\ user_item_matrix' = o.user_item_matrix
            /\ item_features_matrix' = o.item_features_matrix
            /\ svd_model' = o.svd_model
    /\ raised' = ""
    /\ UNCHANGED << store, hash_seed >>

Next ==
    \/ ConnectDatabase
    \/ TrainModels
    \/ GetCollaborativeRecommendations
    \/ GetHybridRecommendations
    \/ ApiRecommendations
    \/ Return

Spec == Init /\ [][Next]_vars

-----------------------------------------------------------------------------
(* Specification of create_complete_outfits over lists of many categories   *)

MaxCategories == 7

\* Categories of the recommended products; "shirts" is one of the categories
\* create_outfit_from_products classifies as a top.
CategoryPool ==
    << "dresses", "skirts", "bags", "shirts", "watches", "jewelry", "sunglasses",
       "scarves", "belts" >>

\* k categories of the pool, from position r on.
CategoryOrder(r, k) ==
    [j \in 1..k |-> CategoryPool[((r + j - 2) % Len(CategoryPool)) + 1]]

\* A list of recommendations: one pair of shoes of every category, in the
\* order given, then a bag of each category in paired, the last category
\* first.
GroupedRecommendations(categories, paired) ==
    LET k == Len(categories)
        second == SelectSeq([i \in 1..k |-> k + 1 - i], LAMBDA j : j \in paired)
    IN  [j \in 1..k |->
            ProductRow(j, [category |-> categories[j], subcategory |-> "shoes",
                           price |-> 100])]
        \o [i \in 1..Len(second) |->
            ProductRow(k + second[i],
                       [category |-> categories[second[i]], subcategory |-> "bag",
                        price |-> 250])]

CreateOutfitsOfGroups ==
    /\ op = "idle"
    /\ \E r \in 1..Len(CategoryPool), k \in 0..MaxCategories,
          user_preferences \in OutfitPreferences :
        \E paired \in SUBSET (1..k) :
            LET recommendations == GroupedRecommendations(CategoryOrder(r, k), paired)
            IN  /\ op' = "create_complete_outfits"
                /\ args' = [recommendations |-> recommendations,
                            user_preferences |-> user_preferences]
                /\ result' = create_complete_outfits(recommendations, user_preferences)
    /\ raised' = ""
    /\ UNCHANGED << hash_seed, score_log >>
    /\ EngineUnchanged

NextGroups == CreateOutfitsOfGroups \/ Return

SpecGroups == InitIdle /\ [][NextGroups]_vars

-----------------------------------------------------------------------------
(* Specification of the collaborative filter over stores with more ratings *)

MaxRatings == 2

\* The products table of these stores: NumProducts in-stock rows (a known
\* user's recommendations read the matrix only).
CollabCatalog ==
    [i \in 1..NumProducts |->
        StoredProduct(i, CHOOSE k \in StoreKinds : k.subcategory = "shoes")]

CollabStores ==
    UNION { { [status |-> "ok", products |-> CollabCatalog,
               interactions |-> interactions, bulk_rated |-> bulk]
              : bulk \in IF interactions = {} THEN {0} ELSE {0, n_components} }
            : interactions \in UpTo(InteractionRows(CollabCatalog), MaxRatings) }

InitCollab ==
    /\ store \in CollabStores
    /\ conn = "none"
    /\ user_item_matrix = NoMatrix
    /\ item_features_matrix = NoFeatures
    /\ svd_model = NoModel
    /\ hash_seed = 0
    /\ Idle

NextCollab ==
    \/ ConnectDatabase
    \/ TrainModels
    \/ GetCollaborativeRecommendations
    \/ Return

SpecCollab == InitCollab /\ [][NextCollab]_vars

-----------------------------------------------------------------------------
(* Specification of the content-based recommender                           *)

MaxCatalog == 3

\* Stores with products tables of up to MaxCatalog rows and no interactions
\* (the recommender reads the products only).
ContentStores ==
    UNION { { [status |-> "ok",
               products |-> [i \in 1..n |-> StoredProduct(i, kinds[i])],
               interactions |-> {}, bulk_rated |-> 0]
              : kinds \in [1..n -> StoreKinds] }
            : n \in 0..MaxCatalog }
    \cup {EmptyStore, NoStore}

InitContent ==
    /\ store \in ContentStores
    /\ conn = "none"
    /\ user_item_matrix = NoMatrix
    /\ item_features_matrix = NoFeatures
    /\ svd_model = NoModel
    /\ hash_seed = 0
    /\ Idle

GetContentBasedRecommendations ==
    /\ op = "idle"
    /\ \E product_id \in 1..MaxCatalog, n \in 0..MaxN :
        \E r \in get_content_based_recommendations(store, conn, item_features_matrix,
                                                   product_id, n) :
            /\ op' = "get_content_based_recommendations"
            /\ args' = [product_id |-> product_id, n_recommendations |-> n]
            /\ result' = r.value
            /\ raised' = r.raised
    /\ UNCHANGED << hash_seed, score_log >>
    /\ EngineUnchanged

NextContent ==
    \/ ConnectDatabase
    \/ TrainModels
    \/ GetContentBasedRecommendations
    \/ Return

SpecContent == InitContent /\ [][NextContent]_vars

-----------------------------------------------------------------------------
(* Specification of the blend of get_hybrid_recommendations (lines 196-229) *)
(* for every pair of answers the two sources can give to lines 185 and 198  *)

\* Stores whose products table has MaxCatalog rows, each in stock or not.
BlendStores ==
    { [status |-> "ok",
       products |-> [i \in 1..MaxCatalog |-> StoredProduct(i, kinds[i])],
       interactions |-> {}, bulk_rated |-> 0]
      : kinds \in [1..MaxCatalog -> { k \in StoreKinds : k.popularity_score = 9 }] }

\* The lists of at most len (product_id, score) pairs, no product twice, the
\* scores from the set given and in descending order: what either source
\* returns when asked for len entries.
SourceLists(scores, len) ==
    UNION { { l \in [1..k -> (1..MaxCatalog) \X scores] :
                \A i, j \in 1..k :
                    i < j => l[i][1] # l[j][1] /\ l[i][2] >= l[j][2] }
            : k \in 0..len }

\* Preference scores (in tenths) of a poor and of a good match.
MatchScores == {10, 60}

InitBlend ==
    /\ store \in BlendStores
    /\ conn = "none"
    /\ user_item_matrix = NoMatrix
    /\ item_features_matrix = NoFeatures
    /\ svd_model = NoModel
    /\ hash_seed = 0
    /\ Idle

\* lines 181-229 with the answers of the two sources as inputs: cf is the
\* outcome of line 185, matching_products the list line 198 gets.
BlendAnswers ==
    /\ op = "idle"
    /\ \E n \in 0..MaxN :
        \E cf \in { [raised |-> "ValueError", value |-> <<>>] }
                   \cup { [raised |-> "", value |-> l]
                          : l \in SourceLists(PredictedRatings, n \div 2) },
           matching_products \in SourceLists(MatchScores, n \div 2) :
            /\ op' = "get_hybrid_recommendations"
            /\ args' = [cf |-> cf, matching_products |-> matching_products,
                        n_recommendations |-> n]
            /\ result' = BlendSources(store, conn, cf, matching_products, n)
    /\ raised' = ""
    /\ UNCHANGED << hash_seed, score_log >>
    /\ EngineUnchanged

NextBlend ==
    \/ ConnectDatabase
    \/ BlendAnswers
    \/ Return

SpecBlend == InitBlend /\ [][NextBlend]_vars

-----------------------------------------------------------------------------
(* Specification of the preference search called on its own                 *)

\* Preference records: without keys, with every key and matching the stored
\* dresses, with one key, and with a color no stored product has.
SearchPreferences ==
    { PrefFiller,
      [keys |-> PrefKeys \ {"user_id"}, user_id |-> 0, age |-> 30, gender |-> "female",
       color |-> "blue", style |-> "dresses", budget |-> 250],
      [PrefFiller EXCEPT !.keys = {"budget"}, !.budget = 100],
      [PrefFiller EXCEPT !.keys = {"color"}, !.color = "black"] }

FindProductsByPreferences ==
    /\ op = "idle"
    /\ \E preferences \in SearchPreferences, n \in 0..MaxN :
        /\ op' = "find_products_by_preferences"
        /\ args' = [preferences |-> preferences, n_recommendations |-> n]
        /\ result' = find_products_by_preferences(store, conn, preferences, n)
    /\ raised' = ""
    /\ UNCHANGED << hash_seed, score_log >>
    /\ EngineUnchanged

NextSearch ==
    \/ ConnectDatabase
    \/ FindProductsByPreferences
    \/ Return

SpecSearch == InitContent /\ [][NextSearch]_vars

-----------------------------------------------------------------------------
(* Specification of successive requests to the module-level engine          *)
(* (ml_recommendations.py line 457) over a data store that changes          *)

\* The products table: a pair of shoes and a more popular bag of one
\* category, both in stock.
LifecycleCatalog ==
    << StoredProduct(1, CHOOSE k \in StoreKinds : k.subcategory = "shoes"),
       StoredProduct(2, CHOOSE k \in StoreKinds : k.subcategory = "bag") >>

\* The contents the store can have: the interactions differ.
LifecycleStores ==
    UNION { { [status |-> "ok", products |-> LifecycleCatalog,
               interactions |-> interactions, bulk_rated |-> bulk]
              : bulk \in IF interactions = {} THEN {0} ELSE {0, n_components} }
            : interactions \in InteractionSets(LifecycleCatalog) }
    \cup {NoStore}

\* The profiles of the requests: the keys app.py passes on, for user 1 and 2.
LifecycleProfiles ==
    { EngineProfile(data) : data \in { d \in ApiRequests : IsNumeric(d.age) } }

InitLifecycle ==
    /\ store \in LifecycleStores
    /\ conn = "none"
    /\ user_item_matrix = NoMatrix
    /\ item_features_matrix = NoFeatures
    /\ svd_model = NoModel
    /\ hash_seed = 0
    /\ Idle

\* lines 459-479: one request, from connect_database to the returned list
GetFashionRecommendations ==
    /\ op = "idle"
    /\ \E user_profile \in LifecycleProfiles :
        \E o \in get_fashion_recommendations(store, conn, user_item_matrix,
                                             item_features_matrix, svd_model,
                                             user_profile, 8) :
            /\ op' = "get_fashion_recommendations"
            /\ args' = [user_profile |-> user_profile, k |-> 8]
            /\ result' = o.value
            /\ conn' = o.conn
            /\ user_item_matrix' = o.user_item_matrix
            /\ item_features_matrix' = o.item_features_matrix
            /\ svd_model' = o.svd_model
    /\ raised' = ""
    /\ UNCHANGED << store, hash_seed, score_log >>

\* Between two requests other programs write to the database: interactions
\* are recorded or removed, or the file becomes unreachable.
ChangeStore ==
    /\ op = "idle"
    /\ \E st \in LifecycleStores :
        /\ st # store
        /\ store' = st
    /\ UNCHANGED << conn, user_item_matrix, item_features_matrix, svd_model,
                    hash_seed, op, args, result, raised, score_log >>

NextLifecycle ==
    \/ GetFashionRecommendations
    \/ ChangeStore
    \/ Return

SpecLifecycle == InitLifecycle /\ [][NextLifecycle]_vars

-----------------------------------------------------------------------------
(* Specification of two requests handled at once.  app.run (app.py line 72) *)
(* serves every request in a thread of its own; the threads share the       *)
(* module-level engine.  In this specification op, args and result hold one *)
(* entry per request: the step the request has reached, its profile and     *)
(* the list it returned.                                                    *)

Requests == {1, 2}

\* The sqlite3 connection object request r creates at line 32.
ConnectionOf(r) == << "open_1", "open_2" >>[r]

\* self.conn as the thread of request r can use it: a connection created in
\* another thread raises ProgrammingError on use (check_same_thread).
ThreadConn(r, c) == IF c = ConnectionOf(r) THEN "open" ELSE "none"

\* The request ends at the except clause of line 476.
ReqFallback(r) ==
    /\ op' = [op EXCEPT ![r] = "done"]
    /\ result' = [result EXCEPT ![r] = get_fallback_recommendations(args[r], 8)]

\* The stores of this specification: those of the successive requests and one
\* whose only product is out of stock.
ConcurrentStores ==
    LifecycleStores
    \cup { [status |-> "ok",
            products |-> << StoredProduct(1, CHOOSE k \in StoreKinds : ~k.in_stock) >>,
            interactions |-> {}, bulk_rated |-> 0] }

InitConcurrent ==
    /\ store \in ConcurrentStores
    /\ conn = "none"
    /\ user_item_matrix = NoMatrix
    /\ item_features_matrix = NoFeatures
    /\ svd_model = NoModel
    /\ hash_seed = 0
    /\ op = [r \in Requests |-> "start"]
    /\ args \in [Requests -> LifecycleProfiles]
    /\ result = [r \in Requests |-> <<>>]
    /\ raised = ""
    /\ score_log = <<>>

\* line 464, connect_database (29-35)
ReqConnect(r) ==
    /\ op[r] = "start"
    /\ conn' = IF store.status = "unreachable" THEN conn ELSE ConnectionOf(r)
    /\ op' = [op EXCEPT ![r] = "connected"]
    /\ UNCHANGED << store, user_item_matrix, item_features_matrix, svd_model,
                    hash_seed, args, result, raised, score_log >>

\* train_models lines 433-438: the two queries and the two matrices
ReqBuildMatrices(r) ==
    /\ op[r] = "connected"
    /\ LET products_df == InStockRows(store.products)
           matrix == [built |-> TRUE, ratings |-> store.interactions,
                      bulk_rated |-> store.bulk_rated]
           features == [built |-> TRUE,
                        ids |-> [i \in 1..Len(products_df) |-> products_df[i].id]]
       IN  IF ~ReadOk(store, ThreadConn(r, conn))
           THEN /\ ReqFallback(r)
                /\ UNCHANGED << user_item_matrix, item_features_matrix >>
           ELSE \/ /\ store.interactions = {}
                   /\ ReqFallback(r)
                   /\ UNCHANGED << user_item_matrix, item_features_matrix >>
                \/ /\ products_df = <<>>
                   /\ user_item_matrix' = matrix
                   /\ UNCHANGED item_features_matrix
                   /\ ReqFallback(r)
                \/ /\ products_df # <<>>
                   /\ user_item_matrix' = matrix
                   /\ item_features_matrix' = features
                   /\ op' = [op EXCEPT ![r] = IF store.interactions = {}
                                                THEN "trained" ELSE "built"]
                   /\ UNCHANGED result
    /\ UNCHANGED << store, conn, svd_model, hash_seed, args, raised, score_log >>

\* line 108: self.svd_model = TruncatedSVD(...)
ReqAssignModel(r) ==
    /\ op[r] = "built"
    /\ svd_model' = [state |-> "unfitted", fitted_on |-> NoMatrix]
    /\ op' = [op EXCEPT ![r] = "assigned"]
    /\ UNCHANGED << store, conn, user_item_matrix, item_features_matrix, hash_seed,
                    args, result, raised, score_log >>

\* line 109: self.svd_model.fit(self.user_item_matrix)
ReqFit(r) ==
    /\ op[r] = "assigned"
    /\ IF n_components > NumColumns(user_item_matrix)
       THEN ReqFallback(r) /\ UNCHANGED svd_model
       ELSE /\ svd_model' = [state |-> "fitted", fitted_on |-> user_item_matrix]
            /\ op' = [op EXCEPT ![r] = "trained"]
            /\ UNCHANGED result
    /\ UNCHANGED << store, conn, user_item_matrix, item_features_matrix, hash_seed,
                    args, raised, score_log >>

\* lines 470-473: the blend and the outfits
ReqRecommend(r) ==
    /\ op[r] = "trained"
    /\ \E recommendations \in
           get_recommendations_for_user(store, ThreadConn(r, conn), user_item_matrix,
                                        svd_model, Get(args[r], "user_id", 1), args[r]) :
        result' = [result EXCEPT ![r] = Take(recommendations, 8)]
    /\ op' = [op EXCEPT ![r] = "done"]
    /\ UNCHANGED << store, conn, user_item_matrix, item_features_matrix, svd_model,
                    hash_seed, args, raised, score_log >>

NextConcurrent ==
    \E r \in Requests :
        \/ ReqConnect(r)
        \/ ReqBuildMatrices(r)
        \/ ReqAssignModel(r)
        \/ ReqFit(r)
        \/ ReqRecommend(r)

SpecConcurrent == InitConcurrent /\ [][NextConcurrent]_vars

-----------------------------------------------------------------------------
(* Claims on the preference matcher (SpecScore)                            *)

C8_Preferences == args.preferences
C8_Product == args.product

C8_GenderTerm ==
    IF "gender" \notin C8_Preferences.keys THEN 0
    ELSE IF C8_Product.target_gender \in {"unisex", C8_Preferences.gender}
         THEN 300 ELSE 0 - 200

C8_ColorTerm ==
    IF "color" \in C8_Preferences.keys
       /\ Lower(C8_Product.color) = Lower(C8_Preferences.color)
    THEN 250 ELSE 0

C8_StyleTerm ==
    IF "style" \in C8_Preferences.keys
       /\ Lower(C8_Product.category) = Lower(C8_Preferences.style)
    THEN 250 ELSE 0

C8_BudgetTerm ==
    IF "budget" \notin C8_Preferences.keys THEN 0
    ELSE CASE 2 * C8_Product.price <= C8_Preferences.budget -> 150
           [] /\ C8_Preferences.budget < 2 * C8_Product.price
              /\ C8_Product.price <= C8_Preferences.budget -> 100
           [] C8_Product.price > C8_Preferences.budget -> 0 - 150

C8_AgeTerm ==
    IF "age" \notin C8_Preferences.keys THEN 0
    ELSE LET age == C8_Preferences.age
             lo == C8_Product.target_age_min
             hi == C8_Product.target_age_max
         IN  IF lo <= age /\ age <= hi THEN 200
             ELSE IF (lo - 5 <= age /\ age <= lo + 5) \/ (hi - 5 <= age /\ age <= hi + 5)
                  THEN 100 ELSE 0

\* C8: calculate_preference_score(product, preferences) is the sum of the gender
\* (+30 / -20), color (+25), style (+25), budget (+15 / +10 / -15) and age
\* (+20 / +10 / 0) rules plus 0.1 * popularity_score, and a rule whose preference
\* key is absent contributes 0 (all in tenths of a point here).
C8_ScoreIsSumOfRules ==
    op = "calculate_preference_score" =>
        /\ raised = ""
        /\ result = C8_GenderTerm + C8_ColorTerm + C8_StyleTerm + C8_BudgetTerm
                     + C8_AgeTerm + C8_Product.popularity_score

\* C8 witness: a scored call where every rule takes a non-default branch: gender
\* mismatch, color matched up to case, price over budget, age within 5 of a bound,
\* style key absent.
C8_Witness ==
    /\ op = "calculate_preference_score"
    /\ raised = ""
    /\ args.preferences.keys = {"gender", "color", "budget", "age"}
    /\ args.product.target_gender = "male" /\ args.preferences.gender = "female"
    /\ args.product.color = "black" /\ args.preferences.color = "BLACK"
    /\ args.product.price = 1001 /\ args.preferences.budget = 1000
    /\ args.preferences.age = 45
    /\ args.product.popularity_score = 7
    /\ result = 10 * (0 - 20 + 25 - 15 + 10) + 7

-----------------------------------------------------------------------------
(* Claims on the outfit assembler (SpecOutfit)                             *)

Slots == {"top", "bottom", "shoes", "accessory"}

\* the outfits a call of the assembler returned
C3_Emitted ==
    IF op = "create_outfit_from_products"
    THEN IF result = None THEN {} ELSE {result}
    ELSE IF op = "create_complete_outfits"
         THEN {result[i] : i \in 1..Len(result)}
         ELSE {}

\* C3: every outfit the assembler emits has at most one item per slot type and at
\* least 2 items, and a list of products that fills fewer than 2 slots emits none.
C3_OneItemPerSlotAtLeastTwo ==
    /\ \A outfit \in C3_Emitted :
          /\ Len(outfit.items) >= 2
          /\ \A i, j \in 1..Len(outfit.items) :
                outfit.items[i].type = outfit.items[j].type => i = j
          /\ \A i \in 1..Len(outfit.items) : outfit.items[i].type \in Slots
    /\ op = "create_outfit_from_products" =>
          ( Cardinality({ItemType(args.products[i]) : i \in 1..Len(args.products)}) < 2
            => result = None )

\* C3 witness: a list with two products of one slot and one of another yields an
\* outfit of exactly two items.
C3_Witness ==
    /\ op = "create_outfit_from_products"
    /\ Len(args.products) = 3
    /\ ItemType(args.products[1]) = ItemType(args.products[2])
    /\ ItemType(args.products[3]) # ItemType(args.products[1])
    /\ result # None
    /\ Len(result.items) = 2

-----------------------------------------------------------------------------
(* Claims on the static-catalog fallbacks (SpecFallback)                   *)

\* C5 (as claimed): the static-catalog fallbacks, recommend_products and
\* get_fallback_recommendations, return exactly k entries for every k >= 0,
\* repeating entries when the pool holds fewer than k.
C5_ExactlyKEntries ==
    (op \in {"recommend_products", "get_fallback_recommendations"} /\ raised = "")
        => Len(result) = args.k

\* The preferences of the "Elegant Evening Look" scenario.
C9_Scenario ==
    [ProfileFiller EXCEPT !.keys = {"gender", "color_pref", "style_pref", "budget", "age"},
                          !.gender = "female", !.color_pref = "black",
                          !.style_pref = "elegant", !.budget = 15497, !.age = 30]

\* C9: with gender=female, color_pref=black, style_pref=elegant, budget=15497,
\* age=30, recommend_products ranks "Elegant Evening Look" (outfit_004) first, with
\* a score strictly greater than that of every other catalog outfit.
C9_ElegantEveningLookFirst ==
    (op = "recommend_products" /\ args.user_profile = C9_Scenario /\ args.k >= 1) =>
        /\ raised = ""
        /\ Len(result) >= 1
        /\ result[1].outfit_id = "outfit_004"
        /\ result[1].name = "Elegant Evening Look"
        /\ \A i \in 2..Len(result) : result[i].score < result[1].score
        /\ \A i \in 1..Len(score_log) :
              score_log[i].outfit_id # "outfit_004"
                  => LogScore(score_log[i]) < result[1].score

\* C9 witness: the scenario served with k = 8: all eight outfits are returned and
\* the first scores 160.
C9_Witness ==
    /\ op = "recommend_products"
    /\ args.user_profile = C9_Scenario
    /\ args.k = 8
    /\ Len(result) = 8
    /\ result[1].score = 160
    /\ result[2].score = 125

\* the budget recommend_products compares prices with
C10_Budget == IF "budget" \in args.user_profile.keys THEN args.user_profile.budget ELSE 1000

\* C10: in recommend_products an outfit priced above the budget gets exactly -20
\* from the budget rule and neither within-budget bonus; an outfit priced at or
\* below the budget never gets the -20; the returned score is the sum of the
\* rules' points.
C10_OverBudgetPenalty ==
    (op = "recommend_products" /\ raised = "") =>
        /\ Len(score_log) = Len(load_products)
        /\ \A i \in 1..Len(score_log) :
              /\ score_log[i].total_price = load_products[i].total_price
              /\ score_log[i].total_price > C10_Budget => score_log[i].budget = 0 - 20
              /\ score_log[i].total_price <= C10_Budget => score_log[i].budget \in {10, 15}
        /\ \A j \in 1..Len(result) : \E i \in 1..Len(score_log) :
              /\ score_log[i].outfit_id = result[j].outfit_id
              /\ result[j].score = score_log[i].gender + score_log[i].style
                                   + score_log[i].color + score_log[i].age
                                   + score_log[i].budget + score_log[i].stock

\* C10 witness: budget = 500, every catalog outfit is priced above it and each got
\* the -20; and (second conjunct's case) the call returned entries.
C10_Witness ==
    /\ op = "recommend_products"
    /\ raised = ""
    /\ "budget" \in args.user_profile.keys
    /\ args.user_profile.budget = 500
    /\ \A i \in 1..Len(score_log) :
          score_log[i].total_price > 500 /\ score_log[i].budget = 0 - 20
    /\ Len(result) = 8

-----------------------------------------------------------------------------
(* Claims on the deterministic pseudo-recommendations (SpecPseudo)         *)

\* C6 (as claimed): for every profile with any color_pref and style_pref strings
\* and every k >= 0, the deterministic branch of get_recommendations never raises
\* and returns exactly k entries.  (Profiles with a numeric age and budget.)
C6_NeverRaisesExactlyK ==
    ( /\ op = "get_recommendations"
      /\ IsNumeric(Get(args.user_profile, "age", 28))
      /\ IsNumeric(Get(args.user_profile, "budget", 100)) )
        => (raised = "" /\ Len(result) = args.k)

\* C7 (as claimed): calling the deterministic branch again with the same profile
\* and the same k yields the identical list; the output depends on nothing but the
\* profile and k.
C7_SameProfileSameOutput ==
    [][ (op = "get_recommendations" /\ op' = "get_recommendations" /\ args' = args)
            => (result' = result /\ raised' = raised) ]_vars

-----------------------------------------------------------------------------
(* Claims on the engine over a data store (Spec)                           *)

\* C1: every request to POST /api/recommendations, whichever stages succeed,
\* fail or find no data, is answered with a non-empty list of outfits: never
\* with an error response and never with an empty list.
C1_AlwaysNonEmptyList ==
    op = "api_recommendations" =>
        /\ result.status = 200
        /\ result.recommendations # <<>>

\* C2: for every n >= 0, user_id and preference record, the list returned by
\* get_hybrid_recommendations has at most n entries and no two of them have
\* the same product id.
C2_AtMostNNoDuplicates ==
    op = "get_hybrid_recommendations" =>
        /\ Len(result) <= args.n_recommendations
        /\ \A i, j \in 1..Len(result) : result[i].id = result[j].id => i = j

\* The blender returned two products where it could return up to four.
C2_Witness ==
    /\ op = "get_hybrid_recommendations"
    /\ args.n_recommendations = 4
    /\ Len(result) = 2
    /\ result[1].id # result[2].id

\* A call of the collaborative filter, the matrix built, for a user with no
\* row in it.
C4_ColdStartCall ==
    /\ op = "get_collaborative_recommendations"
    /\ user_item_matrix.built
    /\ args.user_id \notin MatrixIndex(user_item_matrix)

\* The call returned the cold-start list: the in-stock products, the most
\* popular first, as many as asked for when the store holds that many.
C4_ReturnedPopularityList ==
    LET products == store.products
        in_stock == { i \in DOMAIN products : products[i].in_stock }
        listed == { result[i][1] : i \in 1..Len(result) }
    IN  /\ raised = ""
        /\ Len(result) = Min(args.n_recommendations, Cardinality(in_stock))
        /\ \A i \in 1..Len(result) :
              \E j \in in_stock : /\ products[j].id = result[i][1]
                                  /\ products[j].popularity_score = result[i][2]
        /\ \A i, j \in 1..Len(result) : result[i][1] = result[j][1] => i = j
        /\ \A i, j \in 1..Len(result) : i < j => result[i][2] >= result[j][2]
        /\ \A j \in in_stock :
              products[j].id \notin listed =>
                  \A i \in 1..Len(result) : result[i][2] >= products[j].popularity_score

\* C4 as stated: for every user_id absent from the user-item matrix,
\* get_collaborative_recommendations returns exactly the in-stock products in
\* descending popularity order and never raises.
C4_ColdStartNeverRaises ==
    C4_ColdStartCall => C4_ReturnedPopularityList

\* C4, amended: once train_collaborative_filtering has created the model
\* (svd_model is not None), for every user_id absent from the user-item
\* matrix get_collaborative_recommendations(user_id, n) does not raise and
\* returns the (id, popularity_score) pairs of the in-stock products in
\* descending popularity order, min(n, number of in-stock products) of them.
\* Before that it raises ValueError for every user.
C4_ColdStartOnceTrained ==
    /\ (C4_ColdStartCall /\ svd_model.state # "none") => C4_ReturnedPopularityList
    /\ (op = "get_collaborative_recommendations" /\ svd_model.state = "none")
           => raised = "ValueError"

\* A cold-start call answered with two products, the more popular one first
\* although it is stored second.
C4_Witness ==
    /\ C4_ColdStartCall
    /\ svd_model.state # "none"
    /\ Len(result) = 2
    /\ result[1][2] > result[2][2]
    /\ result[1][1] > result[2][1]

-----------------------------------------------------------------------------
(* Claims on the stock rule of recommend_products (SpecStock)              *)

\* Two returned entries that are the same outfit, one in stock and one not.
C11_Twins(i, j) ==
    /\ result[i].in_stock
    /\ ~result[j].in_stock
    /\ [result[i] EXCEPT !.score = 0, !.in_stock = FALSE]
         = [result[j] EXCEPT !.score = 0]

\* C11: in recommend_products, for every preference record, an outfit with
\* in_stock = false scores at least 40 points lower than the otherwise
\* identical outfit with in_stock = true.
C11_OutOfStockFortyLower ==
    (op = "recommend_products" /\ raised = "") =>
        \A i, j \in 1..Len(result) :
            C11_Twins(i, j) => result[j].score + 40 <= result[i].score

\* C11 witness: both copies of an outfit were scored and returned, the
\* out-of-stock one below the in-stock one.
C11_Witness ==
    /\ op = "recommend_products"
    /\ raised = ""
    /\ \E i, j \in 1..Len(result) : C11_Twins(i, j) /\ i < j

-----------------------------------------------------------------------------
(* Claims on the request defaults (Spec)                                   *)

\* C12: whichever path serves a request, a key missing from it takes the
\* documented default (age 25, gender "male", color_pref "blue", style_pref
\* "casual", budget 5000) and the count defaults to 8: the rule-based path
\* scores with the request's values or these defaults and returns 8 outfits,
\* and the outfits the engine assembles carry them.
C12_MissingKeysTakeDefaults ==
    (op = "api_recommendations" /\ result.status = 200) =>
        IF args.ml_available
        THEN /\ Len(result.recommendations) <= 8
             /\ \A i \in 1..Len(result.recommendations) :
                   LET outfit == result.recommendations[i]
                   IN  outfit.outfit_id # "fallback_1" =>
                         /\ outfit.style = Get(args.data, "style_pref", "casual")
                         /\ outfit.color_scheme = Get(args.data, "color_pref", "blue")
                         /\ outfit.target_gender = Get(args.data, "gender", "male")
                         /\ outfit.target_age = << "str", Get(args.data, "age", 25) >>
        ELSE /\ Len(result.recommendations) = 8
             /\ \A i \in 1..Len(score_log) :
                   /\ score_log[i].user_age = Get(args.data, "age", 25)
                   /\ score_log[i].user_gender = Lower(Get(args.data, "gender", "male"))
                   /\ score_log[i].user_color = Lower(Get(args.data, "color_pref", "blue"))
                   /\ score_log[i].user_style = Lower(Get(args.data, "style_pref", "casual"))
                   /\ score_log[i].user_budget = Get(args.data, "budget", 5000)

-----------------------------------------------------------------------------
(* Claims on non-numeric request values (SpecFallback)                     *)

\* The keys of the profile that hold a value int() / float() reject.
C13_NonNumericKeys(user_profile) ==
    { key \in {"age", "budget"} :
        Has(user_profile, key) /\ ~IsNumeric(user_profile[key]) }

\* The profile without these keys: every rule then reads the default.
C13_Coerced(user_profile) ==
    [user_profile EXCEPT !.keys = @ \ C13_NonNumericKeys(user_profile)]

\* C13 (as claimed): a non-numeric age or budget does not make the
\* recommendation path fail: no exception leaves recommend_products or
\* get_recommendations, the value is replaced by its default and the list of the
\* coerced profile is returned, and the endpoint answers no error response.
C13_NonNumericTakesDefault ==
    /\ (op = "recommend_products" /\ C13_NonNumericKeys(args.user_profile) # {}) =>
          /\ raised = ""
          /\ result = recommend_products(C13_Coerced(args.user_profile), args.k).value
    /\ (op = "get_recommendations" /\ C13_NonNumericKeys(args.user_profile) # {}) =>
          raised = ""
    /\ (op = "api_recommendations" /\ C13_NonNumericKeys(args.data) # {}) =>
          result.status = 200

-----------------------------------------------------------------------------
(* Claims on the collaborative filter for a known user (SpecCollab)        *)

\* A call of the collaborative filter that returned, for a user with a row in
\* the matrix.
C14_KnownUserCall ==
    /\ op = "get_collaborative_recommendations"
    /\ raised = ""
    /\ args.user_id \in MatrixIndex(user_item_matrix)

\* C14 (as claimed): for a user present in the user-item matrix the call returns
\* at most n (product_id, score) pairs, none of a product the user rated with
\* rating > 0, in non-increasing order of predicted score, equal scores in the
\* products' column order in the matrix (columns are in ascending product id).
C14_KnownUserOrdered ==
    C14_KnownUserCall =>
        /\ Len(result) <= args.n_recommendations
        /\ \A i \in 1..Len(result) :
              ~\E r \in user_item_matrix.ratings :
                  /\ r.user_id = args.user_id
                  /\ r.product_id = result[i][1]
                  /\ r.rating > 0
        /\ \A i, j \in 1..Len(result) :
              i < j => /\ result[i][2] >= result[j][2]
                       /\ result[i][2] = result[j][2] => result[i][1] < result[j][1]

-----------------------------------------------------------------------------
(* Claims on the engine without a collaborative model (Spec)                *)

\* The preference search's list for the arguments of the hybrid call.
C15_OtherSource ==
    find_products_by_preferences(store, conn, args.user_preferences,
                                 args.n_recommendations \div 2)

-----------------------------------------------------------------------------
(* Claims on the content-based recommender (SpecContent)                    *)

\* A call of the content-based recommender that returned, for a product of the
\* products table.
C16_KnownProductCall ==
    /\ op = "get_content_based_recommendations"
    /\ raised = ""
    /\ \E i \in DOMAIN store.products : store.products[i].id = args.product_id

\* C16 (as claimed): for a known product_id the call returns at most n
\* products in non-increasing order of similarity, the query product is not
\* among them, and products of equal similarity come in catalog order
\* (ascending id).
C16_SimilarExcludingQuery ==
    C16_KnownProductCall =>
        /\ Len(result) <= args.n_recommendations
        /\ \A i \in 1..Len(result) : result[i][1] # args.product_id
        /\ \A i, j \in 1..Len(result) :
              i < j => /\ result[i][2] >= result[j][2]
                       /\ result[i][2] = result[j][2] => result[i][1] < result[j][1]

-----------------------------------------------------------------------------
(* Claims on the blend of the two sources (SpecBlend)                       *)

\* The product ids of a source's list.
C17_Ids(pairs) == { pairs[i][1] : i \in 1..Len(pairs) }

\* The products both sources returned.
C17_InBoth == C17_Ids(args.cf.value) \cap C17_Ids(args.matching_products)

\* C17: a product id that the collaborative source and the preference source
\* both returned appears at most once in the result, with source
\* 'collaborative' and 0.6 x its collaborative score (60 hundredths a point);
\* the result is in non-increasing order of scaled score, and every entry of
\* either source is in it unless its product has no details or it is the
\* preference entry of a product both sources returned (the two lists never
\* exceed n entries together, so the truncation drops nothing).
C17_CollaborativeEntryKept ==
    op = "get_hybrid_recommendations" =>
        /\ \A i, j \in 1..Len(result) : result[i].id = result[j].id => i = j
        /\ \A i \in 1..Len(result) :
              result[i].id \in C17_InBoth =>
                  /\ result[i].recommendation_source = "collaborative"
                  /\ \E k \in 1..Len(args.cf.value) :
                        /\ args.cf.value[k][1] = result[i].id
                        /\ result[i].recommendation_score = args.cf.value[k][2] * 60
        /\ \A i, j \in 1..Len(result) :
              i < j => result[i].recommendation_score >= result[j].recommendation_score
        /\ Len(result) <= args.n_recommendations
        /\ \A id \in C17_Ids(args.cf.value) \cup C17_Ids(args.matching_products) :
              get_product_details(store, conn, id) # None
                  => \E i \in 1..Len(result) : result[i].id = id

\* Both sources returned product 1, the preference source with the higher
\* scaled score (0.4 x 6.0 against 0.6 x 3), and another product besides; the
\* result lists product 1 once, as a collaborative entry, below the preference
\* entry of another product.
C17_Witness ==
    /\ op = "get_hybrid_recommendations"
    /\ 1 \in C17_InBoth
    /\ Len(result) = 2
    /\ result[1].recommendation_source = "content"
    /\ result[1].recommendation_score = 240
    /\ result[2].id = 1
    /\ result[2].recommendation_source = "collaborative"
    /\ result[2].recommendation_score = 180
    /\ \E k \in 1..Len(args.matching_products) :
          args.matching_products[k] = << 1, 60 >>

\* The pairs of a source's list whose product has details (line 222).
C18_WithDetails(pairs) ==
    SelectSeq(pairs, LAMBDA pair : get_product_details(store, conn, pair[1]) # None)

\* The result is the entries of one source alone: one entry per pair, in the
\* list's order, with the source's tag and weight.
C18_ResultIs(pairs, source, weight) ==
    /\ Len(result) = Len(pairs)
    /\ \A i \in 1..Len(pairs) :
          /\ result[i].id = pairs[i][1]
          /\ result[i].recommendation_source = source
          /\ result[i].recommendation_score = pairs[i][2] * weight

\* C18: get_hybrid_recommendations raises nothing; when the collaborative
\* source raised, the result is the preference source's entries; when the
\* preference source gave nothing (its failures end in an empty list), the
\* result is the collaborative source's entries; when both failed, the result
\* is the empty list.
C18_OneSourceFailureKeepsOther ==
    op = "get_hybrid_recommendations" =>
        /\ raised = ""
        /\ args.cf.raised # ""
              => C18_ResultIs(C18_WithDetails(args.matching_products), "content", 4)
        /\ args.matching_products = <<>>
              => C18_ResultIs(C18_WithDetails(args.cf.value), "collaborative", 60)
        /\ ((args.cf.raised # "" \/ args.cf.value = <<>>) /\ args.matching_products = <<>>)
              => result = <<>>

\* The collaborative source raised and the preference source listed two
\* products: both are returned.
C18_Witness ==
    /\ op = "get_hybrid_recommendations"
    /\ args.cf.raised = "ValueError"
    /\ Len(args.matching_products) = 2
    /\ Len(result) = 2
    /\ result[1].recommendation_source = "content"

-----------------------------------------------------------------------------
(* Claims on the preference search (SpecSearch)                             *)

\* The filter the search is meant to apply: the product is in stock and meets
\* the condition of every preference key present.
C19_Satisfies(p, preferences) ==
    /\ p.in_stock
    /\ Has(preferences, "gender")
          => p.target_gender = preferences.gender \/ p.target_gender = "unisex"
    /\ Has(preferences, "color") => p.color = preferences.color
    /\ Has(preferences, "style") => p.category = preferences.style
    /\ Has(preferences, "budget") => p.price <= preferences.budget
    /\ Has(preferences, "age")
          => p.target_age_min <= preferences.age /\ preferences.age <= p.target_age_max

\* C19 (as claimed): with the store readable, find_products_by_preferences
\* returns at most n (id, score) pairs of in-stock products that satisfy the
\* filter of every preference key present, in descending order of score, and
\* at least one pair whenever n >= 1 and such a product exists.
C19_MatchingProductsFound ==
    (op = "find_products_by_preferences" /\ ReadOk(store, conn)) =>
        /\ Len(result) <= args.n_recommendations
        /\ \A i \in 1..Len(result) :
              \E j \in DOMAIN store.products :
                  /\ store.products[j].id = result[i][1]
                  /\ C19_Satisfies(store.products[j], args.preferences)
        /\ \A i, j \in 1..Len(result) : i < j => result[i][2] >= result[j][2]
        /\ (/\ args.n_recommendations >= 1
            /\ \E j \in DOMAIN store.products :
                  C19_Satisfies(store.products[j], args.preferences))
              => result # <<>>

-----------------------------------------------------------------------------
(* Claims on the items an outfit keeps (SpecOutfit)                         *)

\* The sum of the prices of the items from position i on.
RECURSIVE C20_PriceFrom(_, _)
C20_PriceFrom(items, i) ==
    IF i > Len(items) THEN 0 ELSE items[i].price + C20_PriceFrom(items, i + 1)

\* The products handed to the call (names tell the products apart).
C20_Products ==
    IF op = "create_outfit_from_products" THEN args.products
    ELSE IF op = "create_complete_outfits" THEN args.recommendations
    ELSE <<>>

\* Products k and i are in the same group: the whole list for a direct call,
\* the products of one category for create_complete_outfits.
C20_SameGroup(k, i) ==
    op = "create_complete_outfits" => C20_Products[k].category = C20_Products[i].category

\* C20: every item of an emitted outfit is the first product of its slot in
\* the group's input order, the items are in the order their products came in,
\* and total_price is the sum of the prices of the outfit's items.
C20_FirstItemOfSlotKept ==
    \A outfit \in C3_Emitted :
        /\ \A x \in 1..Len(outfit.items) :
              \E i \in 1..Len(C20_Products) :
                  /\ C20_Products[i].name = outfit.items[x].name
                  /\ C20_Products[i].price = outfit.items[x].price
                  /\ ItemType(C20_Products[i]) = outfit.items[x].type
                  /\ \A k \in 1..(i - 1) :
                        C20_SameGroup(k, i) =>
                            ItemType(C20_Products[k]) # outfit.items[x].type
        /\ \A x, y \in 1..Len(outfit.items) :
              x < y => \E i, j \in 1..Len(C20_Products) :
                          /\ i < j
                          /\ C20_Products[i].name = outfit.items[x].name
                          /\ C20_Products[j].name = outfit.items[y].name
        /\ outfit.total_price = C20_PriceFrom(outfit.items, 1)

\* A group whose first two products are of one slot at different prices and
\* whose third is of another slot: the outfit holds the first and the third,
\* and its total leaves the second out.
C20_Witness ==
    /\ op = "create_outfit_from_products"
    /\ Len(args.products) = 3
    /\ ItemType(args.products[1]) = ItemType(args.products[2])
    /\ args.products[1].price # args.products[2].price
    /\ ItemType(args.products[3]) # ItemType(args.products[1])
    /\ result # None
    /\ result.items[1].name = args.products[1].name
    /\ result.items[2].name = args.products[3].name
    /\ result.total_price = args.products[1].price + args.products[3].price

-----------------------------------------------------------------------------
(* Claims on the outfits of the category groups (SpecGroups)                *)

\* The position in the input list of the first product of a category.
C21_FirstPosition(category) ==
    CHOOSE i \in 1..Len(args.recommendations) :
        /\ args.recommendations[i].category = category
        /\ \A k \in 1..(i - 1) : args.recommendations[k].category # category

\* The category of the group an outfit was made from: the category of the
\* product its first item names.
C21_CategoryOf(outfit) ==
    LET i == CHOOSE i \in 1..Len(args.recommendations) :
                 args.recommendations[i].name = outfit.items[1].name
    IN  args.recommendations[i].category

\* The categories whose group fills two slots, so that it yields an outfit.
C21_Emitting ==
    { c \in { args.recommendations[i].category : i \in 1..Len(args.recommendations) } :
        Cardinality({ ItemType(args.recommendations[i]) :
                        i \in { j \in 1..Len(args.recommendations) :
                                  args.recommendations[j].category = c } }) >= 2 }

\* C21: create_complete_outfits returns at most 5 outfits, no two of one
\* category, in the order in which their categories first appear in the input;
\* they are the outfits of the first 5 categories that yield one: a category
\* that yields an outfit is left out only when 5 categories that yield one
\* appear before it.
C21_FirstFiveGroupsInInputOrder ==
    op = "create_complete_outfits" =>
        /\ Len(result) <= 5
        /\ \A x, y \in 1..Len(result) :
              x < y => C21_FirstPosition(C21_CategoryOf(result[x]))
                         < C21_FirstPosition(C21_CategoryOf(result[y]))
        /\ \A x \in 1..Len(result) : C21_CategoryOf(result[x]) \in C21_Emitting
        /\ \A c \in C21_Emitting :
              (\E x \in 1..Len(result) : C21_CategoryOf(result[x]) = c)
              \/ Cardinality({ d \in C21_Emitting :
                                 C21_FirstPosition(d) < C21_FirstPosition(c) }) >= 5

\* Six categories yield an outfit and a category that yields none comes before
\* the last of them: five outfits are returned, the fifth of a category that
\* is sixth or later in the input.
C21_Witness ==
    /\ op = "create_complete_outfits"
    /\ Cardinality(C21_Emitting) = 6
    /\ Len(result) = 5
    /\ \E i \in 1..Len(args.recommendations) :
          /\ args.recommendations[i].category \notin C21_Emitting
          /\ i < C21_FirstPosition(C21_CategoryOf(result[5]))

-----------------------------------------------------------------------------
(* Claims on the first entries of the pseudo-recommendations (SpecPseudo)   *)

-----------------------------------------------------------------------------
(* Claims on successive requests (SpecLifecycle)                            *)

\* The lists a request returns when the engine holds nothing from an earlier
\* request: every matrix and model it uses is built from the store as it is.
C23_BuiltAfresh ==
    { o.value : o \in get_fashion_recommendations(store, "none", NoMatrix, NoFeatures,
                                                  NoModel, args.user_profile, args.k) }

\* C23 (as claimed): whatever requests came before and however the store has
\* changed since, a request is answered from matrices and a model built during
\* that request from the store's current data: its answer is one a newly
\* constructed engine gives, and a model the engine holds after the request
\* was fitted on the matrix of the current interactions.
C23_NothingKeptAcrossRequests ==
    op = "get_fashion_recommendations" =>
        /\ result \in C23_BuiltAfresh
        /\ svd_model.state = "fitted" => svd_model.fitted_on.ratings = store.interactions

-----------------------------------------------------------------------------
(* Claims on requests handled at once (SpecConcurrent)                      *)

\* The lists request r can return when it is the only request of a newly
\* constructed engine.
C24_Alone(r) ==
    { o.value : o \in get_fashion_recommendations(store, "none", NoMatrix, NoFeatures,
                                                  NoModel, args[r], 8) }

\* C24 (as claimed): with two requests interleaved over an unchanged store,
\* each request returns a list it would return if it ran alone.
C24_SameResultAsAlone ==
    \A r \in Requests : op[r] = "done" => result[r] \in C24_Alone(r)

-----------------------------------------------------------------------------
(* Claims on the slots of the outfits of category groups (SpecOutfit)       *)

\* C25: every outfit create_complete_outfits returns has exactly 2 items, one
\* of type 'shoes' and one of type 'accessory' (so no top and no bottom), and
\* the outfit_id "generated_2".
C25_ShoesAndAccessoryOnly ==
    op = "create_complete_outfits" =>
        \A x \in 1..Len(result) :
            /\ Len(result[x].items) = 2
            /\ { result[x].items[i].type : i \in 1..2 } = {"shoes", "accessory"}
            /\ result[x].outfit_id = << "generated_", 2 >>

\* The list holds shoes of a top category and the shoes and a bag of another
\* category: one outfit is returned, without the first product.
C25_Witness ==
    /\ op = "create_complete_outfits"
    /\ Len(args.recommendations) = 3
    /\ args.recommendations[1].category = "shirts"
    /\ args.recommendations[1].subcategory = "shoes"
    /\ Len(result) = 1
    /\ \A i \in 1..Len(result[1].items) :
          result[1].items[i].name # args.recommendations[1].name

====
